---------------------------- MODULE Spec2Model ----------------------------
(***************************************************************************)
(* Session timeline engine of the yoga session planner.                    *)
(*                                                                         *)
(* The playback view (function Home, second half of                        *)
(* src/app/components/Navbar.js) is modelled as a state machine: React     *)
(* state and refs are the variables, every event handler is one action     *)
(* that includes the render and the effects it triggers.  Handlers of      *)
(* discrete events (click, change, drop) commit their render and flush     *)
(* their effects before the browser runs the next callback, so a handler   *)
(* together with its effects is one atomic step; the frame callback        *)
(* `animate` is a step of its own.                                         *)
(*                                                                         *)
(* JavaScript indexes are kept 0-based in the variables; sequences are     *)
(* 1-based, so the element at JS index i of arr is arr[i + 1].             *)
(***************************************************************************)
EXTENDS Integers, Sequences, FiniteSets, TLC

VARIABLES
    storage,               \* localStorage 'yogasession_sessions': session id -> exercises
    allSessions,           \* Home state: sessions as read at mount
    selectedSessionId,     \* Home state
    currentExerciseOrder,  \* Home state
    draggedIndex,          \* Home state (NoIndex for null)
    dragPhase,             \* browser drag-and-drop operation: "idle", "dragging",
                           \* or the outcome of its drop until dragend arrives
    isRunning,             \* Home state
    elapsedMs,             \* Home state
    animationRef,          \* Home ref: "null", "pending" (its frame is scheduled) or "stale"
    startTimeRef,          \* Home ref: anchor timestamp
    elapsedMsRef,          \* Home ref
    rafPending,            \* browser: number of scheduled animate callbacks
    now,                   \* browser: performance.now()
    lastOp,                \* the last transport operation that ran (history):
                           \* "mount", "start", "restart" (start of a completed
                           \* transport), "pause", "tick", "complete" (the tick
                           \* that reached the total), "reset", "previous",
                           \* "next", "sessionChange"
    pureCall,              \* a function applied on its own: its name and arguments
    pureResult,            \* and what it returned
    page,                  \* the mounted view: "home" or "sessions"
    showForm,              \* SessionsPage state
    editingSession,        \* SessionsPage state: id of the session ("none" for null)
    formExercises,         \* SessionForm state: formData.exercises
    formDraggedIndex,      \* SessionForm state: draggedIndex (NoIndex for null)
    draggedCard,           \* SessionForm state: id of the card (NoCard for null)
    isDraggingTouch,       \* SessionForm state
    touchDraggedCardIndex, \* SessionForm state (NoIndex for null)
    touchDropIndicator,    \* SessionForm state (NoIndex for null)
    longPressTimer,        \* SessionForm ref: "null", "pending" (its timeout is
                           \* scheduled) or "fired" (the id of a timeout that ran)
    longPressIndex,        \* the index the scheduled timeout will arm
    formGesture,           \* browser: the gesture in progress on the form: "idle",
                           \* "dragItem", "dragCard", "dropItem", "dropCard"
                           \* (dropped, dragend still to come), "touchItem",
                           \* "touchCard" or "tapClick" (card touch released,
                           \* its click still to come)
    formLast,              \* how the long-press drop ended that was the last
                           \* gesture on a form (history): "touchMoved",
                           \* "touchHeld" (released with no indicator set),
                           \* "touchSelf" (released with the indicator on the
                           \* dragged index), or "none" once a form is opened
                           \* or another gesture begins; "cardMoved" while
                           \* a palette-card touch has moved, "cardTapped"
                           \* once one was released as a quick tap
    touchCard,             \* browser: the palette card of the touch in
                           \* progress, of its scheduled timeout and of the
                           \* click that follows its release (NoCard for none)
    strayTimers,           \* browser: the scheduled long-press timeouts whose
                           \* id longPressTimer no longer holds, each with the
                           \* index it will arm and whether a touch-move or a
                           \* touch-end has run since it was scheduled
    repoKind,              \* the repository module under call: "session",
                           \* "exercise", "story" or "practical" ("none"
                           \* while no repository is exercised on its own)
    repoStore,             \* localStorage: the collection under that
                           \* module's key, as JSON holds it
    repoCall,              \* the last repository call: its name and arguments
    repoReturn,            \* and the value it returned
    tabs,                  \* two Home views of one browser profile: the state
                           \* each holds (<< >> while only one view is open)
    lastWrite              \* the last reorder that reached localStorage from
                           \* one of the two views (history)

homeVars == <<storage, allSessions, selectedSessionId, currentExerciseOrder,
              draggedIndex, dragPhase, isRunning, elapsedMs, animationRef,
              startTimeRef, elapsedMsRef, rafPending, now, lastOp>>

pureVars == <<pureCall, pureResult>>

sessionsVars == <<page, showForm, editingSession, formExercises,
                  formDraggedIndex, draggedCard, isDraggingTouch,
                  touchDraggedCardIndex, touchDropIndicator, longPressTimer,
                  longPressIndex, formGesture, formLast, touchCard,
                  strayTimers>>

repoVars == <<repoKind, repoStore, repoCall, repoReturn>>

tabVars == <<tabs, lastWrite>>

vars == <<homeVars, pureVars, sessionsVars, repoVars, tabVars>>

-----------------------------------------------------------------------------
(* Bounds and program constants *)

\* duration_minutes * 60 * 1000
MsPerMinute == 60000

\* useState(null) of an index
NoIndex == -1

\* The clock is observed every FrameMs milliseconds, at most MaxFrames times.
FrameMs == 3 * MsPerMinute
MaxFrames == 4

\* Longest identifier list given to a function applied on its own
MaxOrderLen == 3

\* Longest list of items the session form is filled with
MaxFormItems == 3

\* useState(null) of a card
NoCard == "null"

\* Value of a destructured element that does not exist
UNDEFINED == "undefined"

Min(a, b) == IF a <= b THEN a ELSE b
Max(a, b) == IF a >= b THEN a ELSE b

-----------------------------------------------------------------------------
(* Item collections *)

\* The first default exercises of yoga-data.js
defaultExercises ==
    << [id |-> "1", duration_minutes |-> 5],
       [id |-> "2", duration_minutes |-> 4] >>

\* Exercises in localStorage (none beyond the defaults here)
StoredExercises == << >>

\* Stories in localStorage: one created through createStory (time 6), one
\* legacy entry without a time field.
StoredStories ==
    << [id |-> "story-1", type |-> "story", time |-> 6],
       [id |-> "story-2", type |-> "story"] >>

\* A story id that a session may still reference after the story was deleted
OrphanId == "story-99"

RECURSIVE MapSetAll(_, _, _)
\* items.forEach(x => map.set(x.id, f(x))) on the map m, with f adding type
MapSetAll(m, items, asStory) ==
    IF items = << >> THEN m
    ELSE LET x == Head(items)
             v == IF asStory
                  THEN [k \in DOMAIN x \cup {"type"} |->
                          IF k = "type" THEN "story" ELSE x[k]]
                  ELSE x
             m2 == [k \in DOMAIN m \cup {x.id} |-> IF k = x.id THEN v ELSE m[k]]
         IN  MapSetAll(m2, Tail(items), asStory)

EmptyMap == [k \in {} |-> k]

itemMap ==
    MapSetAll(MapSetAll(MapSetAll(EmptyMap, defaultExercises, FALSE),
                        StoredExercises, FALSE),
              StoredStories, TRUE)

\* x.field || 1
FieldOrOne(item, field) == IF field \in DOMAIN item THEN item[field] ELSE 1

\* x.field || 0
FieldOrZero(item, field) == IF field \in DOMAIN item THEN item[field] ELSE 0

ItemType(item) == IF "type" \in DOMAIN item THEN item.type ELSE UNDEFINED

\* currentExerciseOrder.map(id => itemMap.get(id)).filter(Boolean)
sessionItems(order) ==
    LET found == SelectSeq(order, LAMBDA id : id \in DOMAIN itemMap)
    IN  [k \in 1..Len(found) |-> itemMap[found[k]]]

-----------------------------------------------------------------------------
(* Timeline builder *)

durationMinutesOf(item) ==
    IF ItemType(item) = "story" THEN FieldOrZero(item, "time")
    ELSE FieldOrZero(item, "duration_minutes")

RECURSIVE TimingsFromNoAdvance(_, _, _)
\* calculateItemTimings without the final cumulativeMs = endMs
TimingsFromNoAdvance(items, idx, cumulativeMs) ==
    IF idx > Len(items) THEN << >>
    ELSE LET item == items[idx]
             durationMinutes == IF ItemType(item) = "story"
                                THEN FieldOrZero(item, "time")
                                ELSE FieldOrZero(item, "duration_minutes")
             durationMs == durationMinutes * MsPerMinute
             result == [id |-> item.id,
                        type |-> ItemType(item),
                        uniqueIndex |-> idx - 1,
                        startMs |-> cumulativeMs,
                        endMs |-> cumulativeMs + durationMs,
                        durationMs |-> durationMs,
                        duration_minutes |-> durationMinutes]
         IN  <<result>> \o TimingsFromNoAdvance(items, idx + 1, cumulativeMs)

RECURSIVE TimingsFrom(_, _, _)
\* the map callback of calculateItemTimings, threaded through cumulativeMs
TimingsFrom(items, idx, cumulativeMs) ==
    IF idx > Len(items) THEN << >>
    ELSE LET item == items[idx]
             startMs == cumulativeMs
             durationMinutes == durationMinutesOf(item)
             durationMs == durationMinutes * MsPerMinute
             endMs == cumulativeMs + durationMs
             result == [id |-> item.id,
                        type |-> ItemType(item),
                        uniqueIndex |-> idx - 1,
                        startMs |-> startMs,
                        endMs |-> endMs,
                        durationMs |-> durationMs,
                        duration_minutes |-> durationMinutes]
         IN  <<result>> \o TimingsFrom(items, idx + 1, endMs)

calculateItemTimings(items) == TimingsFrom(items, 1, 0)

RECURSIVE SumDurationMinutes(_)
\* sessionItems.reduce((sum, item) => sum + (item.duration_minutes || 0), 0)
SumDurationMinutes(items) ==
    IF items = << >> THEN 0
    ELSE SumDurationMinutes(SubSeq(items, 1, Len(items) - 1))
         + FieldOrZero(items[Len(items)], "duration_minutes")

totalDuration(order) == SumDurationMinutes(sessionItems(order))

totalDurationMsOf(order) == totalDuration(order) * MsPerMinute

itemsWithTimesOf(order) == calculateItemTimings(sessionItems(order))

\* currentItemIndex, as a JS index (-1 for an empty timeline)
currentItemIndexOf(elapsed, segs, totalMs) ==
    IF Len(segs) = 0 THEN -1
    ELSE LET hits == {i \in 1..Len(segs) :
                         elapsed >= segs[i].startMs /\ elapsed < segs[i].endMs}
         IN  IF hits # {} THEN (CHOOSE i \in hits : \A j \in hits : i <= j) - 1
             ELSE IF elapsed >= totalMs THEN Len(segs) - 1
             ELSE 0

\* Derived values of the current render
itemsWithTimes == itemsWithTimesOf(currentExerciseOrder)
totalDurationMs == totalDurationMsOf(currentExerciseOrder)
currentItemIndex == currentItemIndexOf(elapsedMs, itemsWithTimes, totalDurationMs)


-----------------------------------------------------------------------------
(* Session storage *)

\* Sessions in localStorage when the application is opened
InitialSessions ==
    [sid \in {"1", "2", "3", "4"} |->
        IF sid = "1" THEN <<"story-1", OrphanId, "1">>
        ELSE IF sid = "2" THEN <<"story-2", "2">>
        ELSE IF sid = "3" THEN <<OrphanId>>
        ELSE << >>]

\* defaultSession.exercises, cut to the modelled exercises
DefaultOrder == <<"1", "2">>

\* reorderSessionExercises without saveSessions(sessions)
reorderSessionExercisesNoSave(sessions, id, newExerciseOrder) ==
    IF \E k \in 1..Len(newExerciseOrder) : newExerciseOrder[k] = UNDEFINED
    THEN [sessions |-> sessions, success |-> FALSE]
    ELSE IF id \notin DOMAIN sessions
    THEN [sessions |-> sessions, success |-> FALSE]
    ELSE [sessions |-> sessions, success |-> TRUE]

\* reorderSessionExercises(id, newExerciseOrder): the stored sessions after
\* the call and whether it wrote them
reorderSessionExercises(sessions, id, newExerciseOrder) ==
    IF \E k \in 1..Len(newExerciseOrder) : newExerciseOrder[k] = UNDEFINED
    THEN [sessions |-> sessions, success |-> FALSE]
    ELSE IF id \notin DOMAIN sessions
    THEN [sessions |-> sessions, success |-> FALSE]
    ELSE [sessions |-> [sessions EXCEPT ![id] = newExerciseOrder],
          success |-> TRUE]

\* currentSession.exercises for a selected id
currentSessionExercises(sessions, id) ==
    IF id = "default" THEN DefaultOrder
    ELSE IF id \in DOMAIN sessions THEN sessions[id]
    ELSE DefaultOrder

-----------------------------------------------------------------------------
(* Array.prototype.splice *)

\* start index of splice, clamped to the array
SpliceStart(arr, start) ==
    IF start < 0 THEN Max(Len(arr) + start, 0) ELSE Min(start, Len(arr))

\* arr after arr.splice(start, 1)
SpliceDelete1(arr, start) ==
    LET s == SpliceStart(arr, start)
    IN  IF s >= Len(arr) THEN arr
        ELSE SubSeq(arr, 1, s) \o SubSeq(arr, s + 2, Len(arr))

\* const [removed] = arr.splice(start, 1)
SpliceRemoved1(arr, start) ==
    LET s == SpliceStart(arr, start)
    IN  IF s >= Len(arr) THEN UNDEFINED ELSE arr[s + 1]

\* arr after arr.splice(start, 0, x)
SpliceInsert(arr, start, x) ==
    LET s == SpliceStart(arr, start)
    IN  SubSeq(arr, 1, s) \o <<x>> \o SubSeq(arr, s + 1, Len(arr))

\* handleDrop exchanging the two entries instead of splicing
moveItemSwap(order, fromIndex, toIndex) ==
    [k \in 1..Len(order) |->
        IF k = fromIndex + 1 /\ toIndex < Len(order) THEN order[toIndex + 1]
        ELSE IF k = toIndex + 1 /\ fromIndex < Len(order)
        THEN order[fromIndex + 1]
        ELSE order[k]]

\* handleDrop inserting one place early when the item moves down the list
moveItemBeforeTarget(order, fromIndex, toIndex) ==
    SpliceInsert(SpliceDelete1(order, fromIndex),
                 IF fromIndex < toIndex THEN toIndex - 1 ELSE toIndex,
                 SpliceRemoved1(order, fromIndex))

\* newOrder of handleDrop: remove at draggedIndex, insert at dropIndex
moveItem(order, fromIndex, toIndex) ==
    SpliceInsert(SpliceDelete1(order, fromIndex), toIndex,
                 SpliceRemoved1(order, fromIndex))

-----------------------------------------------------------------------------
(* Frame scheduling and effects *)

\* cancelAnimationFrame left out
CancelFrameNoop(fr) == fr

\* cancelAnimationFrame(animationRef.current) when animationRef.current is set
CancelFrame(fr) ==
    IF fr.ref = "pending"
    THEN [ref |-> "stale", pending |-> fr.pending - 1]
    ELSE fr

\* animationRef.current = requestAnimationFrame(animate)
RequestFrame(fr) == [ref |-> "pending", pending |-> fr.pending + 1]

\* The effect without its cleanup and without the cancel of its not-running
\* branch
AnimateEffectNoCancel(prev, next, fr, anchor, eRef, t) ==
    IF prev = next
    THEN [ref |-> fr.ref, pending |-> fr.pending, anchor |-> anchor]
    ELSE IF ~next.running
         THEN [ref |-> fr.ref, pending |-> fr.pending, anchor |-> anchor]
         ELSE [ref |-> "pending",
               pending |-> fr.pending + 1,
               anchor |-> t - eRef]

\* The effect without its dependency array: cleanup and body at every render
AnimateEffectEveryRender(prev, next, fr, anchor, eRef, t) ==
    LET cleaned == IF prev.running THEN CancelFrame(fr) ELSE fr
    IN  IF ~next.running
        THEN [ref |-> "null",
              pending |-> CancelFrame(cleaned).pending,
              anchor |-> anchor]
        ELSE [ref |-> RequestFrame(cleaned).ref,
              pending |-> RequestFrame(cleaned).pending,
              anchor |-> t - eRef]

\* The effect on [isRunning, totalDurationMs]: cleanup of the previous run,
\* then the body.  prev and next are the dependency values, fr the frame
\* handle and queue, anchor and eRef the refs, t the clock.
AnimateEffect(prev, next, fr, anchor, eRef, t) ==
    IF prev = next
    THEN [ref |-> fr.ref, pending |-> fr.pending, anchor |-> anchor]
    ELSE LET cleaned == IF prev.running THEN CancelFrame(fr) ELSE fr
         IN  IF ~next.running
             THEN [ref |-> "null",
                   pending |-> CancelFrame(cleaned).pending,
                   anchor |-> anchor]
             ELSE [ref |-> RequestFrame(cleaned).ref,
                   pending |-> RequestFrame(cleaned).pending,
                   anchor |-> t - eRef]

\* The component without the effect on [elapsedMs]
SyncElapsedRefNever(prevElapsed, nextElapsed, eRef) == eRef

\* The effect on [elapsedMs]: elapsedMsRef.current = elapsedMs
SyncElapsedRef(prevElapsed, nextElapsed, eRef) ==
    IF prevElapsed # nextElapsed THEN nextElapsed ELSE eRef

\* Commit of a render with the given state, then the effects in the order
\* they are declared.  fr, anchor and eRef are the refs as the handler left
\* them.
Render(running, elapsed, order, fr, anchor, eRef) ==
    LET eRef2 == SyncElapsedRef(elapsedMs, elapsed, eRef)
        eff == AnimateEffect(
                   [running |-> isRunning, total |-> totalDurationMs],
                   [running |-> running, total |-> totalDurationMsOf(order)],
                   fr, anchor, eRef2, now)
    IN  /\ isRunning' = running
        /\ elapsedMs' = elapsed
        /\ currentExerciseOrder' = order
        /\ elapsedMsRef' = eRef2
        /\ animationRef' = eff.ref
        /\ rafPending' = eff.pending
        /\ startTimeRef' = eff.anchor

Frame == [ref |-> animationRef, pending |-> rafPending]


transportVars == <<isRunning, elapsedMs, animationRef, startTimeRef,
                   elapsedMsRef, rafPending>>

-----------------------------------------------------------------------------
(* Initial state: Home mounted, the load effect has run *)

HomeInit ==
    /\ storage = InitialSessions
    /\ allSessions = InitialSessions
    /\ selectedSessionId = "default"
    /\ currentExerciseOrder = DefaultOrder
    /\ draggedIndex = NoIndex
    /\ dragPhase = "idle"
    /\ isRunning = FALSE
    /\ elapsedMs = 0
    /\ animationRef = "null"
    /\ startTimeRef = 0
    /\ elapsedMsRef = 0
    /\ rafPending = 0
    /\ now = 0
    /\ lastOp = "mount"

NoCall == [fn |-> "none"]
NoResult == [done |-> FALSE]

\* No repository is exercised on its own
RepoIdle ==
    /\ repoKind = "none"
    /\ repoStore = << >>
    /\ repoCall = [fn |-> "none"]
    /\ repoReturn = [t |-> "undefined"]

\* Only one view is open
TabsIdle ==
    /\ tabs = << >>
    /\ lastWrite = [tab |-> "none"]

\* The sessions page is not mounted
SessionsInit ==
    /\ page = "home"
    /\ showForm = FALSE
    /\ editingSession = "none"
    /\ formExercises = << >>
    /\ formDraggedIndex = NoIndex
    /\ draggedCard = NoCard
    /\ isDraggingTouch = FALSE
    /\ touchDraggedCardIndex = NoIndex
    /\ touchDropIndicator = NoIndex
    /\ longPressTimer = "null"
    /\ longPressIndex = NoIndex
    /\ formGesture = "idle"
    /\ formLast = "none"
    /\ touchCard = NoCard
    /\ strayTimers = {}

Init ==
    /\ HomeInit
    /\ SessionsInit
    /\ pureCall = NoCall
    /\ pureResult = NoResult
    /\ RepoIdle
    /\ TabsIdle

-----------------------------------------------------------------------------
(* Transport controller *)

\* handleStartStop without the reset of a completed transport
handleStartStopNoReset ==
    /\ UNCHANGED <<pureVars, repoVars, tabVars, sessionsVars>>
    /\ page = "home"
    /\ dragPhase = "idle"
    /\ IF isRunning
       THEN /\ Render(FALSE, elapsedMs, currentExerciseOrder, Frame,
                      startTimeRef, elapsedMsRef)
            /\ lastOp' = "pause"
       ELSE /\ Render(TRUE, elapsedMs, currentExerciseOrder, Frame,
                      startTimeRef, elapsedMsRef)
            /\ lastOp' = IF elapsedMs >= totalDurationMs THEN "restart"
                         ELSE "start"
    /\ UNCHANGED <<storage, allSessions, selectedSessionId, draggedIndex,
                   dragPhase, now>>

\* handleStartStop
handleStartStop ==
    /\ UNCHANGED <<pureVars, repoVars, tabVars, sessionsVars>>
    /\ page = "home"
    /\ dragPhase = "idle"
    /\ IF isRunning
       THEN /\ Render(FALSE, elapsedMs, currentExerciseOrder, Frame,
                      startTimeRef, elapsedMsRef)
            /\ lastOp' = "pause"
       ELSE IF elapsedMs >= totalDurationMs
            THEN /\ Render(TRUE, 0, currentExerciseOrder, Frame, now, 0)
                 /\ lastOp' = "restart"
            ELSE /\ Render(TRUE, elapsedMs, currentExerciseOrder, Frame,
                           startTimeRef, elapsedMsRef)
                 /\ lastOp' = "start"
    /\ UNCHANGED <<storage, allSessions, selectedSessionId, draggedIndex,
                   dragPhase, now>>

\* animate without the comparison against totalDurationMs
animateNoClamp(viaRef) ==
    /\ UNCHANGED <<pureVars, repoVars, tabVars, sessionsVars>>
    /\ page = "home"
    /\ IF viaRef THEN animationRef = "pending"
       ELSE rafPending > (IF animationRef = "pending" THEN 1 ELSE 0)
    /\ Render(isRunning, now - startTimeRef, currentExerciseOrder,
              RequestFrame([ref |-> IF viaRef THEN "stale" ELSE animationRef,
                            pending |-> rafPending - 1]),
              startTimeRef, elapsedMsRef)
    /\ lastOp' = "tick"
    /\ UNCHANGED <<storage, allSessions, selectedSessionId, draggedIndex,
                   dragPhase, now>>

\* The frame callback animate(currentTime), with the render of the state it
\* sets.  viaRef: the callback is the one animationRef.current refers to.
animate(viaRef) ==
    /\ UNCHANGED <<pureVars, repoVars, tabVars, sessionsVars>>
    /\ page = "home"
    /\ IF viaRef THEN animationRef = "pending"
       ELSE rafPending > (IF animationRef = "pending" THEN 1 ELSE 0)
    /\ LET fired == [ref |-> IF viaRef THEN "stale" ELSE animationRef,
                     pending |-> rafPending - 1]
           newElapsed == now - startTimeRef
       IN  IF newElapsed >= totalDurationMs
           THEN /\ Render(FALSE, totalDurationMs, currentExerciseOrder,
                          fired, startTimeRef, elapsedMsRef)
                /\ lastOp' = "complete"
           ELSE /\ Render(isRunning, newElapsed, currentExerciseOrder,
                          RequestFrame(fired), startTimeRef, elapsedMsRef)
                /\ lastOp' = "tick"
    /\ UNCHANGED <<storage, allSessions, selectedSessionId, draggedIndex,
                   dragPhase, now>>

\* disabled={elapsedMs === 0 && !isRunning}
ResetDisabled == elapsedMs = 0 /\ ~isRunning

\* handleReset without setElapsedMs(0) and the ref assignments
handleResetKeepsPosition ==
    /\ UNCHANGED <<pureVars, repoVars, tabVars, sessionsVars>>
    /\ page = "home"
    /\ dragPhase = "idle"
    /\ ~ResetDisabled
    /\ Render(FALSE, elapsedMs, currentExerciseOrder, Frame, startTimeRef,
              elapsedMsRef)
    /\ lastOp' = "reset"
    /\ UNCHANGED <<storage, allSessions, selectedSessionId, draggedIndex,
                   dragPhase, now>>

\* handleReset
handleReset ==
    /\ UNCHANGED <<pureVars, repoVars, tabVars, sessionsVars>>
    /\ page = "home"
    /\ dragPhase = "idle"
    /\ ~ResetDisabled
    /\ Render(FALSE, 0, currentExerciseOrder, Frame, now, 0)
    /\ lastOp' = "reset"
    /\ UNCHANGED <<storage, allSessions, selectedSessionId, draggedIndex,
                   dragPhase, now>>

\* The seek shared by handlePrevious and handleNext
SeekTo(targetIndex) ==
    LET newTime == itemsWithTimes[targetIndex + 1].startMs
    IN  Render(isRunning, newTime, currentExerciseOrder, Frame,
               now - newTime, newTime)

\* disabled={currentItemIndex <= 0}
PreviousDisabled == currentItemIndex <= 0

\* handlePrevious
handlePrevious ==
    /\ UNCHANGED <<pureVars, repoVars, tabVars, sessionsVars>>
    /\ page = "home"
    /\ dragPhase = "idle"
    /\ ~PreviousDisabled
    /\ Len(itemsWithTimes) # 0
    /\ SeekTo(Max(0, currentItemIndex - 1))
    /\ lastOp' = "previous"
    /\ UNCHANGED <<storage, allSessions, selectedSessionId, draggedIndex,
                   dragPhase, now>>

\* disabled={currentItemIndex >= itemsWithTimes.length - 1}
NextDisabled == currentItemIndex >= Len(itemsWithTimes) - 1

\* handleNext
handleNext ==
    /\ UNCHANGED <<pureVars, repoVars, tabVars, sessionsVars>>
    /\ page = "home"
    /\ dragPhase = "idle"
    /\ ~NextDisabled
    /\ Len(itemsWithTimes) # 0
    /\ SeekTo(Min(Len(itemsWithTimes) - 1, currentItemIndex + 1))
    /\ lastOp' = "next"
    /\ UNCHANGED <<storage, allSessions, selectedSessionId, draggedIndex,
                   dragPhase, now>>

\* handleSessionChange without setIsRunning(false) and setElapsedMs(0)
handleSessionChangeKeepsTransport(id) ==
    /\ UNCHANGED <<pureVars, repoVars, tabVars, sessionsVars>>
    /\ page = "home"
    /\ dragPhase = "idle"
    /\ id # selectedSessionId
    /\ selectedSessionId' = id
    /\ Render(isRunning, elapsedMs, currentSessionExercises(allSessions, id),
              Frame, startTimeRef, elapsedMsRef)
    /\ lastOp' = "sessionChange"
    /\ UNCHANGED <<storage, allSessions, draggedIndex, dragPhase, now>>

\* handleSessionChange, with the effect that loads the session's order
handleSessionChange(id) ==
    /\ UNCHANGED <<pureVars, repoVars, tabVars, sessionsVars>>
    /\ page = "home"
    /\ dragPhase = "idle"
    /\ id # selectedSessionId
    /\ selectedSessionId' = id
    /\ Render(FALSE, 0, currentSessionExercises(allSessions, id), Frame,
              startTimeRef, elapsedMsRef)
    /\ lastOp' = "sessionChange"
    /\ UNCHANGED <<storage, allSessions, draggedIndex, dragPhase, now>>

\* performance.now() advances by one frame interval
Advance ==
    /\ UNCHANGED <<pureVars, repoVars, tabVars, sessionsVars>>
    /\ page = "home"
    /\ now < MaxFrames * FrameMs
    /\ now' = now + FrameMs
    /\ UNCHANGED <<storage, allSessions, selectedSessionId,
                   currentExerciseOrder, draggedIndex, dragPhase,
                   transportVars, lastOp>>

-----------------------------------------------------------------------------
(* Reorder engine of the playback view *)

\* handleDragStart(e, index) on a rendered card
handleDragStart(index) ==
    /\ UNCHANGED <<pureVars, repoVars, tabVars, sessionsVars>>
    /\ page = "home"
    /\ dragPhase = "idle"
    /\ index \in 0..(Len(itemsWithTimes) - 1)
    /\ draggedIndex' = index
    /\ dragPhase' = "dragging"
    /\ UNCHANGED <<storage, allSessions, selectedSessionId,
                   currentExerciseOrder, transportVars, now, lastOp>>

\* handleDrop without the draggedIndex === dropIndex part of its early return
handleDropNoSelfGuard(dropIndex) ==
    /\ UNCHANGED <<pureVars, repoVars, tabVars, sessionsVars>>
    /\ page = "home"
    /\ dragPhase = "dragging"
    /\ dropIndex \in 0..(Len(itemsWithTimes) - 1)
    /\ IF draggedIndex = NoIndex
       THEN /\ dragPhase' = "dropIgnored"
            /\ UNCHANGED <<storage, currentExerciseOrder, draggedIndex,
                           transportVars>>
       ELSE LET newOrder == moveItem(currentExerciseOrder, draggedIndex,
                                     dropIndex)
                saved == IF selectedSessionId # "default"
                         THEN reorderSessionExercises(storage,
                                  selectedSessionId, newOrder)
                         ELSE [sessions |-> storage, success |-> FALSE]
            IN  /\ Render(isRunning, elapsedMs, newOrder, Frame,
                          startTimeRef, elapsedMsRef)
                /\ storage' = saved.sessions
                /\ dragPhase' = IF saved.success THEN "dropSaved"
                                ELSE "dropMoved"
                /\ draggedIndex' = NoIndex
    /\ UNCHANGED <<allSessions, selectedSessionId, now, lastOp>>

\* handleDrop(e, dropIndex) on a rendered card
handleDrop(dropIndex) ==
    /\ UNCHANGED <<pureVars, repoVars, tabVars, sessionsVars>>
    /\ page = "home"
    /\ dragPhase = "dragging"
    /\ dropIndex \in 0..(Len(itemsWithTimes) - 1)
    /\ IF draggedIndex = NoIndex \/ draggedIndex = dropIndex
       THEN /\ dragPhase' = "dropIgnored"
            /\ UNCHANGED <<storage, currentExerciseOrder, draggedIndex,
                           transportVars>>
       ELSE LET newOrder == moveItem(currentExerciseOrder, draggedIndex,
                                     dropIndex)
                saved == IF selectedSessionId # "default"
                         THEN reorderSessionExercises(storage,
                                  selectedSessionId, newOrder)
                         ELSE [sessions |-> storage, success |-> FALSE]
            IN  /\ Render(isRunning, elapsedMs, newOrder, Frame,
                          startTimeRef, elapsedMsRef)
                /\ storage' = saved.sessions
                /\ dragPhase' = IF saved.success THEN "dropSaved"
                                ELSE "dropMoved"
                /\ draggedIndex' = NoIndex
    /\ UNCHANGED <<allSessions, selectedSessionId, now, lastOp>>

\* handleDragEnd
handleDragEnd ==
    /\ UNCHANGED <<pureVars, repoVars, tabVars, sessionsVars>>
    /\ page = "home"
    /\ dragPhase # "idle"
    /\ draggedIndex' = NoIndex
    /\ dragPhase' = "idle"
    /\ UNCHANGED <<storage, allSessions, selectedSessionId,
                   currentExerciseOrder, transportVars, now, lastOp>>

Next ==
    \/ handleStartStop
    \/ \E viaRef \in BOOLEAN : animate(viaRef)
    \/ handleReset
    \/ handlePrevious
    \/ handleNext
    \/ \E id \in {"default"} \cup DOMAIN allSessions : handleSessionChange(id)
    \/ Advance
    \/ \E index \in 0..(Len(currentExerciseOrder) - 1) : handleDragStart(index)
    \/ \E dropIndex \in 0..(Len(currentExerciseOrder) - 1) : handleDrop(dropIndex)
    \/ handleDragEnd

Spec == Init /\ [][Next]_vars


-----------------------------------------------------------------------------
(* Navigation between the playback view and the sessions page *)

\* The state of a SessionForm that is mounted with the given exercises, or
\* of none when it is not mounted
FormFresh(exs) ==
    /\ formExercises' = exs
    /\ formDraggedIndex' = NoIndex
    /\ draggedCard' = NoCard
    /\ isDraggingTouch' = FALSE
    /\ touchDraggedCardIndex' = NoIndex
    /\ touchDropIndicator' = NoIndex
    /\ longPressTimer' = "null"
    /\ longPressIndex' = NoIndex
    /\ formGesture' = "idle"
    /\ touchCard' = NoCard
    /\ strayTimers' = {}

\* Home as it is after it mounts and its load effect has read the storage
HomeFresh ==
    /\ allSessions' = storage
    /\ selectedSessionId' = "default"
    /\ currentExerciseOrder' = DefaultOrder
    /\ draggedIndex' = NoIndex
    /\ dragPhase' = "idle"
    /\ isRunning' = FALSE
    /\ elapsedMs' = 0
    /\ animationRef' = "null"
    /\ startTimeRef' = 0
    /\ elapsedMsRef' = 0
    /\ rafPending' = 0
    /\ lastOp' = "mount"

\* The sessions page replaces the playback view: Home unmounts (the cleanup
\* of its effect cancels the frame), SessionsPage mounts and loads its data
GoToSessions ==
    /\ page = "home"
    /\ dragPhase = "idle"
    /\ page' = "sessions"
    /\ HomeFresh
    /\ showForm' = FALSE
    /\ editingSession' = "none"
    /\ FormFresh(<< >>)
    /\ UNCHANGED <<storage, now, formLast, pureVars, repoVars, tabVars>>

\* The link back: SessionsPage unmounts (the cleanup of the form clears the
\* long-press timeout), Home mounts
GoHome ==
    /\ page = "sessions"
    /\ formGesture = "idle"
    /\ page' = "home"
    /\ HomeFresh
    /\ showForm' = FALSE
    /\ editingSession' = "none"
    /\ FormFresh(<< >>)
    /\ UNCHANGED <<storage, now, formLast, pureVars, repoVars, tabVars>>

-----------------------------------------------------------------------------
(* The sessions page and its session form *)

\* SessionForm.itemMap: stored exercises, stories and practicals
formItemMap ==
    MapSetAll(MapSetAll(EmptyMap, StoredExercises, FALSE), StoredStories, FALSE)

\* The list entry at JS index idx is rendered with its drag and touch
\* handlers (an entry that is not found is rendered without them)
FormItemRendered(idx) ==
    /\ idx \in 0..(Len(formExercises) - 1)
    /\ formExercises[idx + 1] \in DOMAIN formItemMap

FormOpen == page = "sessions" /\ showForm

\* onClick of "Neue Session": setShowForm(true), the form mounts for no session
handleNewSession ==
    /\ page = "sessions"
    /\ ~showForm
    /\ showForm' = TRUE
    /\ FormFresh(<< >>)
    /\ UNCHANGED <<homeVars, pureVars, repoVars, tabVars, page, editingSession>>
    /\ formLast' = "none"

\* handleEdit(session), session one of the sessions the page has loaded
handleEdit(id) ==
    /\ page = "sessions"
    /\ ~showForm
    /\ id \in DOMAIN storage
    /\ editingSession' = id
    /\ showForm' = TRUE
    /\ FormFresh(storage[id])
    /\ UNCHANGED <<homeVars, pureVars, repoVars, tabVars, page>>
    /\ formLast' = "none"

\* handleCancel
handleCancel ==
    /\ FormOpen
    /\ formGesture = "idle"
    /\ showForm' = FALSE
    /\ editingSession' = "none"
    /\ FormFresh(<< >>)
    /\ UNCHANGED <<homeVars, pureVars, repoVars, tabVars, page, formLast>>

\* handleAddCard(cardId) from the click on a card of the palette
handleAddCard(cardId) ==
    /\ FormOpen
    /\ formGesture = "idle"
    /\ cardId \in DOMAIN formItemMap
    /\ Len(formExercises) < MaxFormItems
    /\ formExercises' = Append(formExercises, cardId)
    /\ UNCHANGED <<homeVars, pureVars, repoVars, tabVars, touchCard, strayTimers, page, showForm,
                   editingSession,
                   formDraggedIndex, draggedCard, isDraggingTouch,
                   touchDraggedCardIndex, touchDropIndicator, longPressTimer,
                   longPressIndex, formGesture>>
    /\ formLast' = "none"

\* handleRemoveCard(indexToRemove) from the click on the remove button of a
\* list entry, found or not
handleRemoveCard(indexToRemove) ==
    /\ FormOpen
    /\ formGesture = "idle"
    /\ indexToRemove \in 0..(Len(formExercises) - 1)
    /\ formExercises' = SubSeq(formExercises, 1, indexToRemove)
                            \o SubSeq(formExercises, indexToRemove + 2,
                                      Len(formExercises))
    /\ formLast' = "none"
    /\ UNCHANGED <<homeVars, pureVars, repoVars, tabVars, touchCard, strayTimers, page, showForm,
                   editingSession,
                   formDraggedIndex, draggedCard, isDraggingTouch,
                   touchDraggedCardIndex, touchDropIndicator, longPressTimer,
                   longPressIndex, formGesture>>

\* handleCardDragStart(e, card)
handleCardDragStart(cardId) ==
    /\ FormOpen
    /\ formGesture = "idle"
    /\ cardId \in DOMAIN formItemMap
    /\ draggedCard' = cardId
    /\ formGesture' = "dragCard"
    /\ UNCHANGED <<homeVars, pureVars, repoVars, tabVars, touchCard, strayTimers, page, showForm,
                   editingSession,
                   formExercises, formDraggedIndex, isDraggingTouch,
                   touchDraggedCardIndex, touchDropIndicator, longPressTimer,
                   longPressIndex>>
    /\ formLast' = "none"

\* handleCardDragEnd
handleCardDragEnd ==
    /\ FormOpen
    /\ formGesture \in {"dragCard", "dropCard"}
    /\ draggedCard' = NoCard
    /\ formGesture' = "idle"
    /\ UNCHANGED <<homeVars, pureVars, repoVars, tabVars, touchCard, strayTimers, page, showForm,
                   editingSession,
                   formExercises, formDraggedIndex, isDraggingTouch,
                   touchDraggedCardIndex, touchDropIndicator, longPressTimer,
                   longPressIndex, formLast>>

\* SessionForm.handleDragStart(e, index)
SessionForm_handleDragStart(index) ==
    /\ FormOpen
    /\ formGesture = "idle"
    /\ FormItemRendered(index)
    /\ formDraggedIndex' = index
    /\ formGesture' = "dragItem"
    /\ UNCHANGED <<homeVars, pureVars, repoVars, tabVars, touchCard, strayTimers, page, showForm,
                   editingSession,
                   formExercises, draggedCard, isDraggingTouch,
                   touchDraggedCardIndex, touchDropIndicator, longPressTimer,
                   longPressIndex>>
    /\ formLast' = "none"

\* SessionForm.handleDrop(e, dropIndex) on a list entry; the drop event then
\* bubbles to the list, whose handleDropOnList sees the draggedCard of the
\* same render and adds the card once more
SessionForm_handleDrop(dropIndex) ==
    /\ FormOpen
    /\ formGesture \in {"dragItem", "dragCard"}
    /\ FormItemRendered(dropIndex)
    /\ IF draggedCard # NoCard
       THEN /\ Len(formExercises) + 2 <= MaxFormItems
            /\ formExercises' =
                   Append(SpliceInsert(formExercises, dropIndex, draggedCard),
                          draggedCard)
            /\ draggedCard' = NoCard
            /\ UNCHANGED formDraggedIndex
       ELSE IF formDraggedIndex = NoIndex \/ formDraggedIndex = dropIndex
       THEN UNCHANGED <<formExercises, draggedCard, formDraggedIndex>>
       ELSE /\ formExercises' = moveItem(formExercises, formDraggedIndex,
                                         dropIndex)
            /\ formDraggedIndex' = NoIndex
            /\ UNCHANGED draggedCard
    /\ formGesture' = IF formGesture = "dragCard" THEN "dropCard"
                      ELSE "dropItem"
    /\ UNCHANGED <<homeVars, pureVars, repoVars, tabVars, touchCard, strayTimers, page, showForm,
                   editingSession,
                   isDraggingTouch, touchDraggedCardIndex, touchDropIndicator,
                   longPressTimer, longPressIndex, formLast>>

\* handleDropOnList(e) for a drop on the list outside the entries that
\* handle it themselves
handleDropOnList ==
    /\ FormOpen
    /\ formGesture \in {"dragItem", "dragCard"}
    /\ IF draggedCard # NoCard
       THEN /\ Len(formExercises) < MaxFormItems
            /\ formExercises' = Append(formExercises, draggedCard)
            /\ draggedCard' = NoCard
       ELSE UNCHANGED <<formExercises, draggedCard>>
    /\ formGesture' = IF formGesture = "dragCard" THEN "dropCard"
                      ELSE "dropItem"
    /\ UNCHANGED <<homeVars, pureVars, repoVars, tabVars, touchCard, strayTimers, page, showForm,
                   editingSession,
                   formDraggedIndex, isDraggingTouch, touchDraggedCardIndex,
                   touchDropIndicator, longPressTimer, longPressIndex,
                   formLast>>

\* SessionForm.handleDragEnd
SessionForm_handleDragEnd ==
    /\ FormOpen
    /\ formGesture \in {"dragItem", "dropItem"}
    /\ formDraggedIndex' = NoIndex
    /\ formGesture' = "idle"
    /\ UNCHANGED <<homeVars, pureVars, repoVars, tabVars, touchCard, strayTimers, page, showForm,
                   editingSession,
                   formExercises, draggedCard, isDraggingTouch,
                   touchDraggedCardIndex, touchDropIndicator, longPressTimer,
                   longPressIndex, formLast>>

-----------------------------------------------------------------------------
(* Touch reordering of the form's list *)

\* handleItemTouchStart(e, index): schedules the long-press timeout, here
\* with no timeout of an earlier touch still scheduled
handleItemTouchStart(index) ==
    /\ FormOpen
    /\ formGesture = "idle"
    /\ longPressTimer # "pending"
    /\ FormItemRendered(index)
    /\ longPressTimer' = "pending"
    /\ longPressIndex' = index
    /\ formGesture' = "touchItem"
    /\ UNCHANGED <<homeVars, pureVars, repoVars, tabVars, touchCard, strayTimers, page, showForm,
                   editingSession,
                   formExercises, formDraggedIndex, draggedCard,
                   isDraggingTouch, touchDraggedCardIndex, touchDropIndicator>>
    /\ formLast' = "none"

\* The timeout callback of handleItemTouchStart, 200 ms after the touch began
longPressTimeout ==
    /\ FormOpen
    /\ longPressTimer = "pending"
    /\ longPressIndex # NoIndex
    /\ formDraggedIndex' = longPressIndex
    /\ touchDraggedCardIndex' = longPressIndex
    /\ isDraggingTouch' = TRUE
    /\ longPressTimer' = "fired"
    /\ longPressIndex' = NoIndex
    /\ UNCHANGED <<homeVars, pureVars, repoVars, tabVars, touchCard, strayTimers, page, showForm,
                   editingSession,
                   formExercises, draggedCard, touchDropIndicator, formGesture,
                   formLast>>

\* The most long-press timeouts that are scheduled without longPressTimer
\* holding their id
MaxStrayTimers == 1

\* handleItemTouchStart(e, index) while the timeout of a touch that the
\* browser cancelled is still scheduled: longPressTimer.current is
\* overwritten with the new id and nothing clears the timeout before it
handleItemTouchRestart(index) ==
    /\ FormOpen
    /\ formGesture = "idle"
    /\ longPressTimer = "pending"
    /\ longPressIndex # NoIndex
    /\ FormItemRendered(index)
    /\ Cardinality(strayTimers) < MaxStrayTimers
    /\ strayTimers' = strayTimers
                          \cup {[index |-> longPressIndex, seen |-> FALSE]}
    /\ longPressTimer' = "pending"
    /\ longPressIndex' = index
    /\ formGesture' = "touchItem"
    /\ formLast' = "none"
    /\ UNCHANGED <<homeVars, pureVars, repoVars, tabVars, touchCard, page,
                   showForm, editingSession,
                   formExercises, formDraggedIndex, draggedCard,
                   isDraggingTouch, touchDraggedCardIndex, touchDropIndicator>>

\* The timeout callback of a touch start whose id longPressTimer has lost
strayLongPressTimeout ==
    /\ FormOpen
    /\ \E t \in strayTimers :
           /\ formDraggedIndex' = t.index
           /\ touchDraggedCardIndex' = t.index
           /\ isDraggingTouch' = TRUE
           /\ strayTimers' = strayTimers \ {t}
    /\ UNCHANGED <<homeVars, pureVars, repoVars, tabVars, touchCard, page,
                   showForm, editingSession,
                   formExercises, draggedCard, touchDropIndicator,
                   longPressTimer, longPressIndex, formGesture, formLast>>

\* A touch-move or a touch-end has run while these timeouts are scheduled
StraysSeeTouch ==
    strayTimers' = {[t EXCEPT !.seen = TRUE] : t \in strayTimers}

\* if (longPressTimer.current) { clearTimeout(...); longPressTimer.current = null }
ClearLongPress ==
    /\ longPressTimer' = "null"
    /\ longPressIndex' = NoIndex

\* handleItemTouchMove(e, index); hoveredIndex is the entry found under the
\* touch point (NoIndex when there is none)
handleItemTouchMove(hoveredIndex) ==
    /\ FormOpen
    /\ formGesture = "touchItem"
    /\ hoveredIndex \in {NoIndex} \cup 0..(Len(formExercises) - 1)
    /\ ClearLongPress
    /\ IF ~isDraggingTouch \/ touchDraggedCardIndex = NoIndex
       THEN UNCHANGED touchDropIndicator
       ELSE IF hoveredIndex # NoIndex /\ hoveredIndex # touchDraggedCardIndex
       THEN touchDropIndicator' = hoveredIndex
       ELSE UNCHANGED touchDropIndicator
    /\ StraysSeeTouch
    /\ UNCHANGED <<homeVars, pureVars, repoVars, tabVars, touchCard, page, showForm,
                   editingSession,
                   formExercises, formDraggedIndex, draggedCard,
                   isDraggingTouch, touchDraggedCardIndex, formGesture,
                   formLast>>

\* handleItemTouchEnd
handleItemTouchEnd ==
    /\ FormOpen
    /\ formGesture = "touchItem"
    /\ ClearLongPress
    /\ formGesture' = "idle"
    /\ IF ~isDraggingTouch
       THEN UNCHANGED <<formExercises, isDraggingTouch, formDraggedIndex,
                        touchDraggedCardIndex, touchDropIndicator, formLast>>
       ELSE /\ IF /\ touchDraggedCardIndex # NoIndex
                  /\ touchDropIndicator # NoIndex
                  /\ touchDraggedCardIndex # touchDropIndicator
               THEN /\ formExercises' = moveItem(formExercises,
                                                 touchDraggedCardIndex,
                                                 touchDropIndicator)
                    /\ formLast' = "touchMoved"
               ELSE /\ UNCHANGED formExercises
                    /\ formLast' = IF touchDropIndicator = NoIndex
                                   THEN "touchHeld" ELSE "touchSelf"
            /\ isDraggingTouch' = FALSE
            /\ formDraggedIndex' = NoIndex
            /\ touchDraggedCardIndex' = NoIndex
            /\ touchDropIndicator' = NoIndex
    /\ StraysSeeTouch
    /\ UNCHANGED <<homeVars, pureVars, repoVars, tabVars, touchCard, page, showForm,
                   editingSession,
                   draggedCard>>

\* The browser ends the touch with touchcancel, for which the list entries
\* have no handler: the state of the gesture stays as it is
touchCancel ==
    /\ FormOpen
    /\ formGesture = "touchItem"
    /\ formGesture' = "idle"
    /\ UNCHANGED <<homeVars, pureVars, repoVars, tabVars, touchCard, strayTimers, page, showForm,
                   editingSession,
                   formExercises, formDraggedIndex, draggedCard,
                   isDraggingTouch, touchDraggedCardIndex, touchDropIndicator,
                   longPressTimer, longPressIndex, formLast>>

-----------------------------------------------------------------------------
(* Touch on the cards of the form's palette *)

\* handleCardTouchStart(e, card): schedules the long-press timeout for the
\* card.  The touch is taken while the list has room for what it can add.
handleCardTouchStart(cardId) ==
    /\ FormOpen
    /\ formGesture = "idle"
    /\ longPressTimer # "pending"
    /\ cardId \in DOMAIN formItemMap
    /\ Len(formExercises) + 2 <= MaxFormItems
    /\ longPressTimer' = "pending"
    /\ longPressIndex' = NoIndex
    /\ touchCard' = cardId
    /\ formGesture' = "touchCard"
    /\ formLast' = "none"
    /\ UNCHANGED <<homeVars, pureVars, repoVars, tabVars, strayTimers, page,
                   showForm, editingSession,
                   formExercises, formDraggedIndex, draggedCard,
                   isDraggingTouch, touchDraggedCardIndex, touchDropIndicator>>

\* The timeout callback of handleCardTouchStart, 200 ms after the touch began
cardLongPressTimeout ==
    /\ FormOpen
    /\ longPressTimer = "pending"
    /\ longPressIndex = NoIndex
    /\ draggedCard' = touchCard
    /\ isDraggingTouch' = TRUE
    /\ longPressTimer' = "fired"
    /\ UNCHANGED <<homeVars, pureVars, repoVars, tabVars, touchCard, strayTimers, page, showForm,
                   editingSession, formExercises, formDraggedIndex,
                   touchDraggedCardIndex, touchDropIndicator, longPressIndex,
                   formGesture, formLast>>

\* handleCardTouchMove(e); overList tells whether the touch point is within
\* the list, hoveredIndex the entry under it (NoIndex when there is none)
handleCardTouchMove(overList, hoveredIndex) ==
    /\ FormOpen
    /\ formGesture = "touchCard"
    /\ hoveredIndex \in {NoIndex} \cup 0..(Len(formExercises) - 1)
    /\ hoveredIndex # NoIndex => overList
    /\ ClearLongPress
    /\ formLast' = "cardMoved"
    /\ IF ~isDraggingTouch \/ draggedCard = NoCard
       THEN UNCHANGED touchDropIndicator
       ELSE IF overList /\ hoveredIndex # NoIndex
       THEN touchDropIndicator' = hoveredIndex
       ELSE IF overList /\ Len(formExercises) = 0
       THEN touchDropIndicator' = 0
       ELSE UNCHANGED touchDropIndicator
    /\ UNCHANGED <<homeVars, pureVars, repoVars, tabVars, touchCard, strayTimers, page, showForm,
                   editingSession, formExercises, formDraggedIndex,
                   draggedCard, isDraggingTouch, touchDraggedCardIndex,
                   formGesture>>

\* handleCardTouchEnd(card); quick tells whether Date.now() is less than
\* 200 ms after touchStartTime, which it is not once the timeout has run.
\* No handler of the touch prevents its default, so a touch that has not
\* moved is followed by the click the browser derives from it: always for a
\* quick one, possibly for a longer one.
handleCardTouchEnd(quick) ==
    /\ FormOpen
    /\ formGesture = "touchCard"
    /\ longPressTimer = "fired" => ~quick
    /\ ClearLongPress
    /\ IF quick /\ ~isDraggingTouch
       THEN formExercises' = Append(formExercises, touchCard)
       ELSE IF isDraggingTouch /\ draggedCard # NoCard
                 /\ touchDropIndicator # NoIndex
       THEN formExercises' =
                SpliceInsert(formExercises, touchDropIndicator, draggedCard)
       ELSE IF isDraggingTouch /\ draggedCard # NoCard
       THEN formExercises' = Append(formExercises, draggedCard)
       ELSE UNCHANGED formExercises
    /\ isDraggingTouch' = FALSE
    /\ draggedCard' = NoCard
    /\ touchDropIndicator' = NoIndex
    /\ formGesture' \in IF formLast = "cardMoved" THEN {"idle"}
                        ELSE IF quick THEN {"tapClick"}
                        ELSE {"tapClick", "idle"}
    /\ formLast' = IF quick /\ ~isDraggingTouch THEN "cardTapped" ELSE formLast
    /\ UNCHANGED <<homeVars, pureVars, repoVars, tabVars, touchCard, strayTimers, page, showForm,
                   editingSession, formDraggedIndex, touchDraggedCardIndex>>

\* onClick of the card for the click that follows a touch: handleAddCard
cardClickAfterTouch ==
    /\ FormOpen
    /\ formGesture = "tapClick"
    /\ Len(formExercises) < MaxFormItems
    /\ formExercises' = Append(formExercises, touchCard)
    /\ formGesture' = "idle"
    /\ UNCHANGED <<homeVars, pureVars, repoVars, tabVars, touchCard, strayTimers, page, showForm,
                   editingSession, formDraggedIndex, draggedCard,
                   isDraggingTouch, touchDraggedCardIndex, touchDropIndicator,
                   longPressTimer, longPressIndex, formLast>>

\* The browser ends the card touch with touchcancel, for which the cards
\* have no handler
cardTouchCancel ==
    /\ FormOpen
    /\ formGesture = "touchCard"
    /\ formGesture' = "idle"
    /\ UNCHANGED <<homeVars, pureVars, repoVars, tabVars, touchCard, strayTimers, page, showForm,
                   editingSession, formExercises, formDraggedIndex,
                   draggedCard, isDraggingTouch, touchDraggedCardIndex,
                   touchDropIndicator, longPressTimer, longPressIndex,
                   formLast>>

\* The gestures that reorder a list, in the playback view and in the session
\* form, with the navigation between the two
NextGestures ==
    \/ GoToSessions
    \/ GoHome
    \/ \E id \in {"default"} \cup DOMAIN allSessions : handleSessionChange(id)
    \/ \E index \in 0..(Len(currentExerciseOrder) - 1) : handleDragStart(index)
    \/ \E dropIndex \in 0..(Len(currentExerciseOrder) - 1) : handleDrop(dropIndex)
    \/ handleDragEnd
    \/ handleNewSession
    \/ \E id \in DOMAIN storage : handleEdit(id)
    \/ handleCancel
    \/ \E cardId \in DOMAIN formItemMap : handleAddCard(cardId)
    \/ \E cardId \in DOMAIN formItemMap : handleCardDragStart(cardId)
    \/ handleCardDragEnd
    \/ \E index \in 0..(Len(formExercises) - 1) : SessionForm_handleDragStart(index)
    \/ \E dropIndex \in 0..(Len(formExercises) - 1) : SessionForm_handleDrop(dropIndex)
    \/ handleDropOnList
    \/ SessionForm_handleDragEnd
    \/ \E index \in 0..(Len(formExercises) - 1) : handleItemTouchStart(index)
    \/ longPressTimeout
    \/ \E hoveredIndex \in {NoIndex} \cup 0..(Len(formExercises) - 1) :
           handleItemTouchMove(hoveredIndex)
    \/ handleItemTouchEnd
    \/ touchCancel

SpecGestures == Init /\ [][NextGestures]_vars

\* The sessions page opened directly: SessionsPage is mounted and has loaded
\* its data, no form is shown, Home is not mounted
InitSessionsPage ==
    /\ HomeInit
    /\ page = "sessions"
    /\ showForm = FALSE
    /\ editingSession = "none"
    /\ formExercises = << >>
    /\ formDraggedIndex = NoIndex
    /\ draggedCard = NoCard
    /\ isDraggingTouch = FALSE
    /\ touchDraggedCardIndex = NoIndex
    /\ touchDropIndicator = NoIndex
    /\ longPressTimer = "null"
    /\ longPressIndex = NoIndex
    /\ formGesture = "idle"
    /\ formLast = "none"
    /\ touchCard = NoCard
    /\ strayTimers = {}
    /\ pureCall = NoCall
    /\ pureResult = NoResult
    /\ RepoIdle
    /\ TabsIdle

\* Everything the user can do on the sessions page while it stays mounted
NextSessionsPage ==
    \/ handleNewSession
    \/ \E id \in DOMAIN storage : handleEdit(id)
    \/ handleCancel
    \/ \E cardId \in DOMAIN formItemMap : handleAddCard(cardId)
    \/ \E indexToRemove \in 0..(Len(formExercises) - 1) :
           handleRemoveCard(indexToRemove)
    \/ \E cardId \in DOMAIN formItemMap : handleCardDragStart(cardId)
    \/ handleCardDragEnd
    \/ \E index \in 0..(Len(formExercises) - 1) : SessionForm_handleDragStart(index)
    \/ \E dropIndex \in 0..(Len(formExercises) - 1) : SessionForm_handleDrop(dropIndex)
    \/ handleDropOnList
    \/ SessionForm_handleDragEnd
    \/ \E index \in 0..(Len(formExercises) - 1) : handleItemTouchStart(index)
    \/ \E index \in 0..(Len(formExercises) - 1) : handleItemTouchRestart(index)
    \/ longPressTimeout
    \/ strayLongPressTimeout
    \/ \E hoveredIndex \in {NoIndex} \cup 0..(Len(formExercises) - 1) :
           handleItemTouchMove(hoveredIndex)
    \/ handleItemTouchEnd
    \/ touchCancel

SpecSessionsPage == InitSessionsPage /\ [][NextSessionsPage]_vars

\* The sessions page with the gestures that add palette cards to the form
NextPalette ==
    \/ handleNewSession
    \/ \E id \in DOMAIN storage : handleEdit(id)
    \/ handleCancel
    \/ \E cardId \in DOMAIN formItemMap : handleAddCard(cardId)
    \/ \E indexToRemove \in 0..(Len(formExercises) - 1) :
           handleRemoveCard(indexToRemove)
    \/ \E cardId \in DOMAIN formItemMap : handleCardDragStart(cardId)
    \/ handleCardDragEnd
    \/ \E dropIndex \in 0..(Len(formExercises) - 1) : SessionForm_handleDrop(dropIndex)
    \/ handleDropOnList
    \/ \E cardId \in DOMAIN formItemMap : handleCardTouchStart(cardId)
    \/ cardLongPressTimeout
    \/ \E overList \in BOOLEAN :
           \E hoveredIndex \in {NoIndex} \cup 0..(Len(formExercises) - 1) :
               handleCardTouchMove(overList, hoveredIndex)
    \/ \E quick \in BOOLEAN : handleCardTouchEnd(quick)
    \/ cardClickAfterTouch
    \/ cardTouchCancel

SpecPalette == InitSessionsPage /\ [][NextPalette]_vars

-----------------------------------------------------------------------------
(* Properties of the transport controller *)

Tick == \E viaRef \in BOOLEAN : animate(viaRef)

\* C3: in every reachable state of the playback view
\* 0 <= elapsedMs <= totalDurationMs.
C3_ElapsedWithinTotal ==
    /\ 0 <= elapsedMs
    /\ elapsedMs <= totalDurationMs

\* C4: a tick that follows a tick of a running transport, with no start,
\* pause, seek, reset or session change in between, does not decrease
\* elapsedMs: it sets elapsedMs to now - anchor clamped to totalDurationMs
\* and leaves the anchor where it was.
C4_TickMonotone ==
    [][(lastOp = "tick" /\ isRunning /\ Tick) =>
           /\ elapsedMs' >= elapsedMs
           /\ elapsedMs' = Min(now - startTimeRef, totalDurationMs)
           /\ startTimeRef' = startTimeRef]_vars

\* A running transport has ticked at least twice since it was started at 0:
\* the last operation is a tick and two frame intervals have elapsed.
C4_Witness ==
    /\ lastOp = "tick"
    /\ isRunning
    /\ startTimeRef = 0
    /\ elapsedMs = 2 * FrameMs
    /\ elapsedMs < totalDurationMs

\* C5: a tick that computes newElapsed >= totalDurationMs sets elapsedMs to
\* totalDurationMs, stops the transport and schedules no further tick; a
\* start of a completed transport sets elapsedMs to 0 and the anchor to now
\* and runs, and the first tick after it reports now - anchor.
C5_CompletionClamp ==
    [][/\ (Tick /\ now - startTimeRef >= totalDurationMs) =>
              (elapsedMs' = totalDurationMs /\ ~isRunning' /\ rafPending' = 0)
       /\ (handleStartStop /\ ~isRunning /\ elapsedMs >= totalDurationMs) =>
              (elapsedMs' = 0 /\ isRunning' /\ startTimeRef' = now
               /\ rafPending' = 1)
       /\ (lastOp = "restart" /\ Tick) =>
              elapsedMs' = Min(now - startTimeRef, totalDurationMs)]_vars

\* A completed transport was started again, later than time 0.
C5_Witness ==
    /\ lastOp = "restart"
    /\ isRunning
    /\ elapsedMs = 0
    /\ totalDurationMs > 0
    /\ startTimeRef >= totalDurationMs

\* C6: once pause has executed the transport is not running, and until the
\* next start, seek, reset or session change no step, a frame callback
\* included, changes elapsedMs or sets the transport running.
C6_PauseFreezes ==
    [][lastOp = "pause" =>
           /\ ~isRunning
           /\ lastOp' \in {"pause", "tick", "complete"} =>
                  (elapsedMs' = elapsedMs /\ ~isRunning')]_vars

\* The transport was paused mid-session and the clock has moved on since.
C6_Witness ==
    /\ lastOp = "pause"
    /\ elapsedMs > 0
    /\ elapsedMs < totalDurationMs
    /\ now - startTimeRef > elapsedMs

Seek == handlePrevious \/ handleNext

\* C12: a seek sets elapsedMs to the startMs of a segment and the anchor to
\* now - elapsedMs and leaves the running state as it was; the tick that
\* follows the seek of a running transport reports the position sought plus
\* the time passed since the seek (clamped to totalDurationMs), never less
\* than the position sought; a transport that is not running stays at the
\* position sought, not running.
C12_SeekKeepsRunningState ==
    [][/\ Seek =>
              /\ \E index \in 0..(Len(itemsWithTimes) - 1) :
                     elapsedMs' = itemsWithTimes[index + 1].startMs
              /\ startTimeRef' = now - elapsedMs'
              /\ elapsedMsRef' = elapsedMs'
              /\ isRunning' = isRunning
       /\ (lastOp \in {"previous", "next"} /\ isRunning /\ Tick) =>
              /\ elapsedMs' = Min(now - startTimeRef, totalDurationMs)
              /\ elapsedMs' >= elapsedMs
       /\ (/\ lastOp \in {"previous", "next"}
           /\ ~isRunning
           /\ lastOp' = lastOp
           /\ ~Seek) =>
              (elapsedMs' = elapsedMs /\ ~isRunning')]_vars

\* The segments whose half-open interval [startMs, endMs) contains elapsedMs
Containing ==
    {i \in 0..(Len(itemsWithTimes) - 1) :
        /\ itemsWithTimes[i + 1].startMs <= elapsedMs
        /\ elapsedMs < itemsWithTimes[i + 1].endMs}

LastIndex == Len(itemsWithTimes) - 1

\* C13: the active segment is the one whose interval [startMs, endMs)
\* contains elapsedMs, and the last one whenever elapsedMs has reached
\* totalDurationMs; previous and next seek to the start of the segment at the
\* active index minus one and plus one, clamped to [0, lastIndex]; on an empty
\* timeline there is no active segment and neither seek is available.
C13_ActiveSegmentAndNeighbours ==
    [][/\ \A i \in Containing : currentItemIndex = i
       /\ (Len(itemsWithTimes) > 0 /\ elapsedMs >= totalDurationMs) =>
              currentItemIndex = LastIndex
       /\ handlePrevious =>
              elapsedMs' =
                  itemsWithTimes[Max(0, currentItemIndex - 1) + 1].startMs
       /\ handleNext =>
              elapsedMs' =
                  itemsWithTimes[Min(LastIndex, currentItemIndex + 1) + 1].startMs
       /\ Len(itemsWithTimes) = 0 =>
              (currentItemIndex = -1 /\ ~ENABLED Seek)]_vars

\* C14: a start of a transport that is not running and has not reached
\* totalDurationMs keeps elapsedMs and sets the anchor to now - elapsedMs,
\* whatever time has passed since the pause; until the first tick the time
\* counted from the anchor is at least elapsedMs, and the first tick reports
\* now - anchor clamped to totalDurationMs, which is the frozen position plus
\* the time since the resume.
C14_ResumeFromFrozenPosition ==
    [][/\ (handleStartStop /\ ~isRunning /\ elapsedMs < totalDurationMs) =>
              /\ isRunning'
              /\ elapsedMs' = elapsedMs
              /\ startTimeRef' = now - elapsedMs
              /\ lastOp' = "start"
       /\ lastOp = "start" =>
              (isRunning /\ now - startTimeRef >= elapsedMs)
       /\ (lastOp = "start" /\ Tick) =>
              /\ elapsedMs' = Min(now - startTimeRef, totalDurationMs)
              /\ elapsedMs' >= elapsedMs]_vars

\* A transport paused at a position above 0 was resumed after more wall-clock
\* time had passed than it had counted, and has ticked since: the anchor lies
\* after the time Home mounted and the position is below the clock reading.
C14_Witness ==
    /\ lastOp = "tick"
    /\ isRunning
    /\ startTimeRef > 0
    /\ elapsedMs > FrameMs
    /\ elapsedMs = now - startTimeRef
    /\ elapsedMs < totalDurationMs

\* C15: handleReset, from a running, paused or completed transport, leaves
\* elapsedMs = 0 and the transport stopped with no frame scheduled; this
\* lasts until the next transport operation, and a start that follows the
\* reset keeps elapsedMs = 0 and anchors at the time of the start, so that the
\* first tick counts the time since that start only.
C15_ResetThenStartFromZero ==
    [][/\ handleReset =>
              /\ elapsedMs' = 0
              /\ elapsedMsRef' = 0
              /\ ~isRunning'
              /\ animationRef' = "null"
       /\ lastOp = "reset" => (elapsedMs = 0 /\ ~isRunning)
       /\ (lastOp = "reset" /\ handleStartStop) =>
              /\ isRunning'
              /\ elapsedMs' = 0
              /\ startTimeRef' = now
       /\ (lastOp \in {"start", "restart"} /\ elapsedMs = 0 /\ Tick) =>
              elapsedMs' = Min(now - startTimeRef, totalDurationMs)]_vars

\* A reset has just acted on a transport that had been started earlier and
\* whose clock has moved on since Home mounted.
C15_Witness ==
    /\ lastOp = "reset"
    /\ elapsedMs = 0
    /\ ~isRunning
    /\ startTimeRef = now
    /\ now >= 2 * FrameMs
    /\ Len(itemsWithTimes) > 0

\* C16: selecting another session, from a running, paused, completed or idle
\* transport, leaves elapsedMs = 0 and the transport stopped with no frame
\* scheduled, and shows the order allSessions holds for it; this lasts until the
\* next transport operation, and a start that follows keeps elapsedMs = 0 and
\* anchors at the time of the start, so that the first tick counts the time
\* since that start on the new session's total.
C16_SessionChangeResets ==
    [][/\ \A id \in DOMAIN allSessions \cup {"default"} :
              handleSessionChange(id) =>
                  /\ elapsedMs' = 0
                  /\ elapsedMsRef' = 0
                  /\ ~isRunning'
                  /\ animationRef' = "null"
                  /\ selectedSessionId' = id
                  /\ currentExerciseOrder' =
                         currentSessionExercises(allSessions, id)
       /\ lastOp = "sessionChange" => (elapsedMs = 0 /\ ~isRunning)
       /\ (lastOp = "sessionChange" /\ handleStartStop) =>
              /\ isRunning'
              /\ elapsedMs' = 0
              /\ startTimeRef' = now
       /\ (lastOp \in {"start", "restart"} /\ elapsedMs = 0 /\ Tick) =>
              elapsedMs' = Min(now - startTimeRef, totalDurationMs)]_vars

\* Another session has just been selected after the clock moved on, and the
\* anchor still is the one of an earlier run: the transport shows 0, stopped.
C16_Witness ==
    /\ lastOp = "sessionChange"
    /\ elapsedMs = 0
    /\ ~isRunning
    /\ startTimeRef # 0
    /\ now >= 2 * FrameMs
    /\ Len(itemsWithTimes) > 0

\* C17: a drop on a card of the playback view leaves isRunning, elapsedMs,
\* the anchor, elapsedMsRef and the scheduled frame as they are, whether the
\* transport is idle, running, paused or completed, and whether the drop is
\* ignored or changes the order; totalDurationMs is the same before and after.
C17_DropKeepsTransport ==
    [][\A dropIndex \in 0..MaxOrderLen :
           handleDrop(dropIndex) =>
               /\ UNCHANGED transportVars
               /\ totalDurationMs' = totalDurationMs]_vars

\* A drop has changed the order while the transport was running at a
\* position above 0 with a frame scheduled and the clock ahead of the last
\* tick, and the timeline differs from the one of the order Home loaded.
C17_Witness ==
    /\ dragPhase \in {"dropMoved", "dropSaved"}
    /\ isRunning
    /\ elapsedMs > 0
    /\ animationRef = "pending"
    /\ now > startTimeRef + elapsedMs
    /\ itemsWithTimes # itemsWithTimesOf(
           currentSessionExercises(allSessions, selectedSessionId))

\* C18: a drop of the playback view that changes the order writes, when a
\* stored session is selected, the new order to that session's exercises in
\* storage within the same step; no drop changes another stored session or
\* the set of stored sessions; with the default session selected a drop
\* leaves storage as it is and changes only the order held by Home.
C18_ReorderPersistence ==
    [][\A dropIndex \in 0..MaxOrderLen :
           handleDrop(dropIndex) =>
               /\ DOMAIN storage' = DOMAIN storage
               /\ \A sid \in DOMAIN storage :
                      sid # selectedSessionId => storage'[sid] = storage[sid]
               /\ selectedSessionId = "default" => storage' = storage
               /\ (/\ selectedSessionId # "default"
                   /\ currentExerciseOrder' # currentExerciseOrder) =>
                      /\ storage'[selectedSessionId] = currentExerciseOrder'
                      /\ dragPhase' = "dropSaved"
               /\ currentExerciseOrder' = currentExerciseOrder =>
                      storage' = storage]_vars

\* A drop on a stored session has just written an order that differs from
\* the one storage held when Home mounted, and the other sessions are as
\* they were.
C18_Witness ==
    /\ dragPhase = "dropSaved"
    /\ selectedSessionId \in DOMAIN storage
    /\ storage[selectedSessionId] = currentExerciseOrder
    /\ storage[selectedSessionId] # InitialSessions[selectedSessionId]
    /\ \A sid \in DOMAIN storage :
           sid # selectedSessionId => storage[sid] = InitialSessions[sid]

\* C19: the playback view shows one entry for every identifier of the
\* order it holds, at the identifier's position and carrying that identifier,
\* whether or not the identifier resolves to an item; the displayed position
\* of an entry is its index in the order.
C19_UnresolvedKeepsPosition ==
    /\ Len(itemsWithTimes) = Len(currentExerciseOrder)
    /\ \A k \in 1..Len(currentExerciseOrder) :
           /\ k <= Len(itemsWithTimes)
           /\ itemsWithTimes[k].id = currentExerciseOrder[k]
           /\ itemsWithTimes[k].uniqueIndex = k - 1

-----------------------------------------------------------------------------
(* The timeline builder applied to every bounded identifier list *)

BoundedSeq(S, n) == UNION {[1..k -> S] : k \in 0..n}

AllIds == DOMAIN itemMap \cup {OrphanId}

InitTimeline ==
    /\ HomeInit
    /\ SessionsInit
    /\ pureCall \in {[fn |-> "timeline", order |-> o] :
                        o \in BoundedSeq(AllIds, MaxOrderLen)}
    /\ pureResult = NoResult
    /\ RepoIdle
    /\ TabsIdle

\* The memo chain sessionItems -> itemsWithTimes, totalDuration of a render
BuildTimeline ==
    /\ pureCall.fn = "timeline"
    /\ ~pureResult.done
    /\ pureResult' = [done |-> TRUE,
                      itemsWithTimes |-> itemsWithTimesOf(pureCall.order),
                      totalDurationMs |-> totalDurationMsOf(pureCall.order)]
    /\ UNCHANGED <<homeVars, sessionsVars, pureCall, repoVars, tabVars>>

NextTimeline == BuildTimeline

SpecTimeline == InitTimeline /\ [][NextTimeline]_vars

TimelineBuilt == pureCall.fn = "timeline" /\ pureResult.done

RECURSIVE SumDurationMs(_)
SumDurationMs(segs) ==
    IF segs = << >> THEN 0
    ELSE segs[1].durationMs + SumDurationMs(Tail(segs))

\* C1: the segments of every non-empty resolved item list are contiguous: the
\* first starts at 0, each ends where the next starts, and each has
\* endMs = startMs + durationMs with durationMs >= 0.
C1_SegmentsContiguous ==
    TimelineBuilt =>
        LET segs == pureResult.itemsWithTimes
        IN  /\ Len(segs) > 0 => segs[1].startMs = 0
            /\ \A i \in 1..(Len(segs) - 1) : segs[i].endMs = segs[i + 1].startMs
            /\ \A i \in 1..Len(segs) :
                   /\ segs[i].endMs = segs[i].startMs + segs[i].durationMs
                   /\ segs[i].durationMs >= 0

\* A timeline of three segments was built from an exercise, a story without a
\* time and a story with one.
C1_Witness ==
    /\ TimelineBuilt
    /\ Len(pureResult.itemsWithTimes) = 3
    /\ pureResult.itemsWithTimes[1].durationMs > 0
    /\ pureResult.itemsWithTimes[2].type = "story"
    /\ pureResult.itemsWithTimes[2].durationMs = 0
    /\ pureResult.itemsWithTimes[3].type = "story"
    /\ pureResult.itemsWithTimes[3].durationMs > 0

\* C2: duration additivity: the totalDurationMs the transport is bounded by
\* equals the sum of durationMs over the segments, which is the endMs of the
\* last segment.
C2_DurationAdditivity ==
    TimelineBuilt =>
        LET segs == pureResult.itemsWithTimes
        IN  /\ pureResult.totalDurationMs = SumDurationMs(segs)
            /\ Len(segs) > 0 => pureResult.totalDurationMs = segs[Len(segs)].endMs

\* C20: an item of zero duration, which every story without a time is, has
\* a segment of zero width at its own index: startMs = endMs = the endMs of
\* the segment before it (0 for the first), the other segments and the total
\* are the ones of the list without it; an exercise of 5 minutes, a story
\* without a time and an exercise of 4 minutes give the segments 0-5, 5-5 and
\* 5-9 minutes and a total of 9 minutes.
C20_ZeroWidthSegment ==
    TimelineBuilt =>
        LET segs == pureResult.itemsWithTimes
            found == SelectSeq(pureCall.order, LAMBDA id : id \in DOMAIN itemMap)
        IN  /\ Len(segs) = Len(found)
            /\ \A k \in 1..Len(segs) :
                   /\ (/\ ItemType(itemMap[found[k]]) = "story"
                       /\ "time" \notin DOMAIN itemMap[found[k]]) =>
                          segs[k].durationMs = 0
                   /\ segs[k].durationMs = 0 =>
                          LET rest == SubSeq(found, 1, k - 1)
                                          \o SubSeq(found, k + 1, Len(found))
                              others == itemsWithTimesOf(rest)
                          IN  /\ segs[k].id = found[k]
                              /\ segs[k].uniqueIndex = k - 1
                              /\ segs[k].startMs = segs[k].endMs
                              /\ segs[k].startMs =
                                     IF k = 1 THEN 0 ELSE segs[k - 1].endMs
                              /\ \A j \in 1..Len(others) :
                                     LET i == IF j < k THEN j ELSE j + 1
                                     IN  /\ others[j].startMs = segs[i].startMs
                                         /\ others[j].endMs = segs[i].endMs
                              /\ totalDurationMsOf(rest) =
                                     pureResult.totalDurationMs
            /\ pureCall.order = <<"1", "story-2", "2">> =>
                   /\ <<segs[1].startMs, segs[1].endMs>> = <<0, 5 * MsPerMinute>>
                   /\ <<segs[2].startMs, segs[2].endMs>> =
                          <<5 * MsPerMinute, 5 * MsPerMinute>>
                   /\ <<segs[3].startMs, segs[3].endMs>> =
                          <<5 * MsPerMinute, 9 * MsPerMinute>>
                   /\ pureResult.totalDurationMs = 9 * MsPerMinute

\* The timeline of an exercise, a story without a time and another exercise
\* was built, and its middle segment has no width.
C20_Witness ==
    /\ TimelineBuilt
    /\ pureCall.order = <<"1", "story-2", "2">>
    /\ pureResult.itemsWithTimes[2].id = "story-2"
    /\ pureResult.itemsWithTimes[2].startMs = pureResult.itemsWithTimes[2].endMs
    /\ pureResult.itemsWithTimes[3].endMs > pureResult.itemsWithTimes[3].startMs

-----------------------------------------------------------------------------
(* The reorder of handleDrop applied to every bounded list and index pair, *)
(* and then applied back                                                   *)

ReorderIds == {"1", "2", "story-1"}

InitReorder ==
    /\ HomeInit
    /\ SessionsInit
    /\ pureCall \in {[fn |-> "moveItem", order |-> o, fromIndex |-> i,
                      toIndex |-> j] :
                        o \in BoundedSeq(ReorderIds, MaxOrderLen),
                        i \in 0..MaxOrderLen, j \in 0..MaxOrderLen}
    /\ pureResult = NoResult
    /\ RepoIdle
    /\ TabsIdle

\* const newOrder = [...order]; splice out at fromIndex; splice in at toIndex
MoveItem ==
    /\ pureCall.fn = "moveItem"
    /\ ~pureResult.done
    /\ pureResult' = [done |-> TRUE, back |-> FALSE,
                      moved |-> moveItem(pureCall.order, pureCall.fromIndex,
                                         pureCall.toIndex)]
    /\ UNCHANGED <<homeVars, sessionsVars, pureCall, repoVars, tabVars>>

\* The same reorder from toIndex back to fromIndex on the moved list
MoveItemBack ==
    /\ pureCall.fn = "moveItem"
    /\ pureResult.done
    /\ ~pureResult.back
    /\ pureResult' = [done |-> TRUE, back |-> TRUE,
                      moved |-> pureResult.moved,
                      restored |-> moveItem(pureResult.moved,
                                            pureCall.toIndex,
                                            pureCall.fromIndex)]
    /\ UNCHANGED <<homeVars, sessionsVars, pureCall, repoVars, tabVars>>

NextReorder ==
    \/ MoveItem
    \/ MoveItemBack

SpecReorder == InitReorder /\ [][NextReorder]_vars

\* Both indexes lie within the list and differ
ValidMove ==
    /\ pureCall.fn = "moveItem"
    /\ pureCall.fromIndex < Len(pureCall.order)
    /\ pureCall.toIndex < Len(pureCall.order)
    /\ pureCall.fromIndex # pureCall.toIndex

\* seq without its k-th element (k counted from 1)
Without(seq, k) ==
    [n \in 1..(Len(seq) - 1) |-> IF n < k THEN seq[n] ELSE seq[n + 1]]

Occurrences(seq, x) == Cardinality({n \in 1..Len(seq) : seq[n] = x})

\* C8: for valid fromIndex # toIndex the reordered list has the moved
\* identifier at toIndex, the other identifiers in their former relative
\* order, and is a permutation of the input of the same length.
C8_SpliceSemantics ==
    (ValidMove /\ pureResult.done) =>
        LET order == pureCall.order
            moved == pureResult.moved
        IN  /\ Len(moved) = Len(order)
            /\ moved[pureCall.toIndex + 1] = order[pureCall.fromIndex + 1]
            /\ Without(moved, pureCall.toIndex + 1)
                   = Without(order, pureCall.fromIndex + 1)
            /\ \A x \in ReorderIds :
                   Occurrences(moved, x) = Occurrences(order, x)

\* Index 0 of a list of three distinct identifiers was moved to index 2: the
\* two others moved up and the first is now last.
C8_Witness ==
    /\ ValidMove
    /\ pureResult.done
    /\ pureCall.order = <<"1", "2", "story-1">>
    /\ pureCall.fromIndex = 0
    /\ pureCall.toIndex = 2
    /\ pureResult.moved = <<"2", "story-1", "1">>

\* C9: for a list of length >= 2 and valid i # j, moving i to j and then j
\* back to i restores the original order.
C9_RoundTrip ==
    (ValidMove /\ pureResult.done /\ pureResult.back) =>
        pureResult.restored = pureCall.order

\* A move over two places was undone: the moved list differed from the
\* original and differs from what exchanging the two entries would give.
C9_Witness ==
    /\ ValidMove
    /\ pureResult.done
    /\ pureResult.back
    /\ pureCall.order = <<"1", "2", "story-1">>
    /\ pureCall.fromIndex = 0
    /\ pureCall.toIndex = 2
    /\ pureResult.moved = <<"2", "story-1", "1">>
    /\ pureResult.restored = <<"1", "2", "story-1">>

-----------------------------------------------------------------------------
(* Properties of the reorder gestures *)

\* C10: a drop of an item on its own index leaves the order of the view as
\* it is and writes nothing to the session storage: the pointer drop of the
\* playback view on the dragged index is ignored even for a stored session,
\* the long-press drop and the pointer drop of the session form with the
\* target on the dragged index leave the form's list and the storage as they
\* are, and the reorder itself maps every list to itself when the two indexes
\* are equal.
C10_SelfMoveNoOp ==
    [][/\ \A d \in 0..(Len(currentExerciseOrder) - 1) :
              (handleDrop(d) /\ draggedIndex = d) =>
                  /\ currentExerciseOrder' = currentExerciseOrder
                  /\ storage' = storage
                  /\ dragPhase' = "dropIgnored"
       /\ (/\ handleItemTouchEnd
           /\ isDraggingTouch
           /\ touchDropIndicator \in {NoIndex, touchDraggedCardIndex}) =>
              /\ formExercises' = formExercises
              /\ storage' = storage
              /\ formLast' \in {"touchHeld", "touchSelf"}
       /\ \A d \in 0..(Len(formExercises) - 1) :
              (/\ SessionForm_handleDrop(d)
               /\ draggedCard = NoCard
               /\ formDraggedIndex = d) =>
                  (formExercises' = formExercises /\ storage' = storage)
       /\ \A d \in 0..(Len(currentExerciseOrder) - 1) :
              moveItem(currentExerciseOrder, d, d) = currentExerciseOrder
       /\ \A d \in 0..(Len(formExercises) - 1) :
              moveItem(formExercises, d, d) = formExercises]_vars

\* A long-press drop of the form ended with the indicator on the dragged
\* index, and afterwards, in the playback view of a stored session, an item
\* was dropped on its own index: the drop was ignored with the index still
\* set and the stored order is the one the view shows.
C10_Witness ==
    /\ formLast = "touchSelf"
    /\ page = "home"
    /\ selectedSessionId # "default"
    /\ dragPhase = "dropIgnored"
    /\ draggedIndex # NoIndex
    /\ Len(currentExerciseOrder) >= 2
    /\ storage[selectedSessionId] = currentExerciseOrder

\* C11: a reorder with fromIndex or toIndex outside the order list leaves
\* the list unchanged: no identifier dropped, no undefined entry inserted, the
\* length as it was.  Stated of every handler that reorders: the drop of the
\* playback view, and the pointer drop and the long-press drop of the form.
C11_OutOfBoundsUnchanged ==
    [][/\ \A d \in 0..(Len(currentExerciseOrder) - 1) :
              (/\ handleDrop(d)
               /\ draggedIndex # NoIndex
               /\ draggedIndex # d
               /\ draggedIndex >= Len(currentExerciseOrder)) =>
                  currentExerciseOrder' = currentExerciseOrder
       /\ \A d \in 0..(Len(formExercises) - 1) :
              (/\ SessionForm_handleDrop(d)
               /\ draggedCard = NoCard
               /\ formDraggedIndex # NoIndex
               /\ formDraggedIndex # d
               /\ formDraggedIndex >= Len(formExercises)) =>
                  formExercises' = formExercises
       /\ (/\ handleItemTouchEnd
           /\ isDraggingTouch
           /\ touchDraggedCardIndex # NoIndex
           /\ touchDropIndicator # NoIndex
           /\ touchDraggedCardIndex # touchDropIndicator
           /\ \/ touchDraggedCardIndex >= Len(formExercises)
              \/ touchDropIndicator >= Len(formExercises)) =>
              formExercises' = formExercises]_vars

-----------------------------------------------------------------------------
(* The clock-time playback view (function Home of src/app/page.js): segment *)
(* times of day computed from a start time                                  *)

\* Strings are sequences of one-character strings.
DigitChars == <<"0", "1", "2", "3", "4", "5", "6", "7", "8", "9">>

RECURSIVE NumberToString(_)
\* n.toString() of an integer n >= 0
NumberToString(n) ==
    IF n < 10 THEN <<DigitChars[n + 1]>>
    ELSE NumberToString(n \div 10) \o <<DigitChars[(n % 10) + 1]>>

RECURSIVE padStart(_, _, _)
\* str.padStart(targetLength, padChar)
padStart(str, targetLength, padChar) ==
    IF Len(str) >= targetLength THEN str
    ELSE padStart(<<padChar>> \o str, targetLength, padChar)

\* formatTime without the branch on days
formatTimeNoDays(totalMinutes) ==
    LET hours == (totalMinutes % (24 * 60)) \div 60
        mins == totalMinutes % 60
    IN  padStart(NumberToString(hours), 2, "0") \o <<":">>
            \o padStart(NumberToString(mins), 2, "0")

\* formatTime(totalMinutes)
formatTime(totalMinutes) ==
    LET days == totalMinutes \div (24 * 60)
        hours == (totalMinutes % (24 * 60)) \div 60
        mins == totalMinutes % 60
        timeStr == padStart(NumberToString(hours), 2, "0") \o <<":">>
                       \o padStart(NumberToString(mins), 2, "0")
    IN  IF days > 0
        THEN timeStr \o <<" ", "(", "+">> \o NumberToString(days) \o <<")">>
        ELSE timeStr

\* The value of a char that is a decimal digit
DigitValue(c) == CHOOSE d \in 0..9 : DigitChars[d + 1] = c

RECURSIVE NumberOf(_)
\* Number(str) of a string of decimal digits; Number("") is 0
NumberOf(str) ==
    IF str = << >> THEN 0
    ELSE 10 * NumberOf(SubSeq(str, 1, Len(str) - 1)) + DigitValue(str[Len(str)])

\* startTime.split(':') of a string with one colon
SplitColon(str) ==
    LET c == CHOOSE i \in 1..Len(str) : str[i] = ":"
    IN  <<SubSeq(str, 1, c - 1), SubSeq(str, c + 1, Len(str))>>

\* The first three default exercises of yoga-data.js
clockExercises ==
    defaultExercises \o << [id |-> "3", duration_minutes |-> 3] >>

\* Exercises in localStorage: one created by the user that lasts a whole day
clockStoredExercises == << [id |-> "6", duration_minutes |-> 24 * 60] >>

\* itemMap of the clock-time view
clockItemMap ==
    MapSetAll(MapSetAll(MapSetAll(EmptyMap, clockExercises, FALSE),
                        clockStoredExercises, FALSE),
              StoredStories, TRUE)

\* sessionItems of the clock-time view
clockSessionItems(order) ==
    LET found == SelectSeq(order, LAMBDA id : id \in DOMAIN clockItemMap)
    IN  [k \in 1..Len(found) |-> clockItemMap[found[k]]]

RECURSIVE ExerciseTimesFrom(_, _, _)
\* the map callback of calculateExerciseTimes, threaded through currentMinutes
ExerciseTimesFrom(items, idx, currentMinutes) ==
    IF idx > Len(items) THEN << >>
    ELSE LET item == items[idx]
             startMinutes == currentMinutes
             duration == FieldOrZero(item, "duration_minutes")
             endMinutes == currentMinutes + duration
             result == [id |-> item.id,
                        type |-> ItemType(item),
                        uniqueIndex |-> idx - 1,
                        startTime |-> formatTime(startMinutes),
                        endTime |-> formatTime(endMinutes),
                        endMinutes |-> endMinutes]
         IN  <<result>> \o ExerciseTimesFrom(items, idx + 1, endMinutes)

\* calculateExerciseTimes(startTime, sessionItems)
calculateExerciseTimes(startTime, items) ==
    LET parts == SplitColon(startTime)
        hours == NumberOf(parts[1])
        mins == NumberOf(parts[2])
    IN  ExerciseTimesFrom(items, 1, hours * 60 + mins)

\* sessionEndTime
sessionEndTime(startTime, timed) ==
    IF Len(timed) = 0 THEN startTime ELSE timed[Len(timed)].endTime

\* The value of the time input for an hour and a minute of the day
TimeInputValue(h, m) ==
    padStart(NumberToString(h), 2, "0") \o <<":">>
        \o padStart(NumberToString(m), 2, "0")

\* Start times the user picks
StartTimes == {<<13, 0>>, <<9, 5>>, <<23, 55>>, <<0, 0>>}

ClockIds == DOMAIN clockItemMap \cup {OrphanId}

InitClock ==
    /\ HomeInit
    /\ SessionsInit
    /\ pureCall \in {[fn |-> "clock", hours |-> t[1], mins |-> t[2],
                      startTime |-> TimeInputValue(t[1], t[2]), order |-> o] :
                        t \in StartTimes,
                        o \in UNION {[1..k -> ClockIds] : k \in 0..MaxOrderLen}}
    /\ pureResult = NoResult
    /\ RepoIdle
    /\ TabsIdle

\* The memo chain sessionItems -> itemsWithTimes, totalDuration,
\* sessionEndTime of a render of the clock-time view
BuildClock ==
    /\ pureCall.fn = "clock"
    /\ ~pureResult.done
    /\ LET items == clockSessionItems(pureCall.order)
           timed == calculateExerciseTimes(pureCall.startTime, items)
       IN  pureResult' = [done |-> TRUE,
                          items |-> items,
                          itemsWithTimes |-> timed,
                          totalDuration |-> SumDurationMinutes(items),
                          sessionEndTime |->
                              sessionEndTime(pureCall.startTime, timed)]
    /\ UNCHANGED <<homeVars, sessionsVars, pureCall, repoVars, tabVars>>

NextClock == BuildClock

SpecClock == InitClock /\ [][NextClock]_vars

ClockBuilt == pureCall.fn = "clock" /\ pureResult.done

RECURSIVE SumDurationsBefore(_, _)
\* Sum of the items' durations (time of a story, duration_minutes of an
\* exercise) before position k
SumDurationsBefore(items, k) ==
    IF k <= 1 THEN 0
    ELSE SumDurationsBefore(items, k - 1) + durationMinutesOf(items[k - 1])

\* C21: in the clock-time view, segment k starts at the start time's minutes
\* of the day plus the durations of the items before it and ends at that
\* value plus its own duration, both shown by formatTime, and the session end
\* shown is the end time of the last segment; exercises 1, 2 and 3 from 13:00
\* give 13:00-13:05, 13:05-13:09, 13:09-13:12 and the end 13:12.
C21_ClockSegments ==
    ClockBuilt =>
        LET segs == pureResult.itemsWithTimes
            items == pureResult.items
            start == pureCall.hours * 60 + pureCall.mins
        IN  /\ Len(segs) = Len(items)
            /\ \A k \in 1..Len(segs) :
                   /\ segs[k].startTime =
                          formatTime(start + SumDurationsBefore(items, k))
                   /\ segs[k].endTime =
                          formatTime(start + SumDurationsBefore(items, k + 1))
            /\ Len(segs) > 0 =>
                   pureResult.sessionEndTime = segs[Len(segs)].endTime
            /\ (pureCall.order = <<"1", "2", "3">> /\ start = 13 * 60) =>
                   /\ segs[1].startTime = <<"1", "3", ":", "0", "0">>
                   /\ segs[1].endTime = <<"1", "3", ":", "0", "5">>
                   /\ segs[2].endTime = <<"1", "3", ":", "0", "9">>
                   /\ segs[3].endTime = <<"1", "3", ":", "1", "2">>
                   /\ pureResult.sessionEndTime = <<"1", "3", ":", "1", "2">>


\* Two decimal digits of a value below 100
TwoDigits(v) == <<DigitChars[(v \div 10) + 1], DigitChars[(v % 10) + 1]>>

\* What formatTime shows for the cumulative minutes n as the string str: the
\* hour of the day and the minute of the hour with two digits each, and the
\* day marker with the number of whole days exactly when hasMarker
ShowsTimeOfDay(n, str, hasMarker) ==
    /\ Len(str) >= 5
    /\ SubSeq(str, 1, 5) =
           TwoDigits((n % 1440) \div 60) \o <<":">> \o TwoDigits(n % 60)
    /\ hasMarker <=> Len(str) > 5
    /\ hasMarker =>
           SubSeq(str, 6, Len(str)) =
               <<" ", "(", "+">> \o NumberToString(n \div 1440) \o <<")">>

\* C22 as stated: every end time shown carries the hour (n mod 1440) div 60
\* and the minute n mod 60 with two digits each, and the day marker with the
\* number of whole days exactly when the cumulative minutes n exceed 24 hours.
C22_MarkerWhenExceedingADay ==
    ClockBuilt =>
        \A k \in 1..Len(pureResult.itemsWithTimes) :
            LET seg == pureResult.itemsWithTimes[k]
            IN  ShowsTimeOfDay(seg.endMinutes, seg.endTime,
                               seg.endMinutes > 24 * 60)

\* C22 amended: every end time shown carries the hour (n mod 1440) div 60 and
\* the minute n mod 60 with two digits each, and the day marker with the
\* number of whole days exactly when the cumulative minutes n are at least
\* 24 hours; below one day there is no marker.
C22_MarkerFromADayOn ==
    ClockBuilt =>
        \A k \in 1..Len(pureResult.itemsWithTimes) :
            LET seg == pureResult.itemsWithTimes[k]
            IN  /\ ShowsTimeOfDay(seg.endMinutes, seg.endTime,
                                  seg.endMinutes >= 24 * 60)
                /\ seg.endMinutes < 24 * 60 => Len(seg.endTime) = 5

\* A segment ends at exactly 24 hours and is shown as 00:00 with the marker
\* of one day, and a later one ends on the second day after the start day.
C22_Witness ==
    /\ ClockBuilt
    /\ \E k \in 1..Len(pureResult.itemsWithTimes) :
           /\ pureResult.itemsWithTimes[k].endMinutes = 24 * 60
           /\ pureResult.itemsWithTimes[k].endTime =
                  <<"0", "0", ":", "0", "0", " ", "(", "+", "1", ")">>
    /\ \E k \in 1..Len(pureResult.itemsWithTimes) :
           /\ pureResult.itemsWithTimes[k].endMinutes > 2 * 24 * 60
           /\ SubSeq(pureResult.itemsWithTimes[k].endTime, 6, 10) =
                  <<" ", "(", "+", "2", ")">>


\* C23: while the order held by the playback view is the empty list, the
\* timeline has no segment, totalDurationMs is 0, no segment is active, the
\* session end shown for every start time is that start time, elapsedMs is 0
\* and stays 0 in every step that keeps the order (start, pause, tick, reset),
\* and previous and next do nothing.
C23_EmptySession ==
    [][currentExerciseOrder = << >> =>
           /\ itemsWithTimes = << >>
           /\ totalDurationMs = 0
           /\ currentItemIndex = -1
           /\ \A t \in StartTimes :
                  LET startTime == TimeInputValue(t[1], t[2])
                      timed == calculateExerciseTimes(startTime,
                                   clockSessionItems(currentExerciseOrder))
                  IN  /\ timed = << >>
                      /\ sessionEndTime(startTime, timed) = startTime
           /\ elapsedMs = 0
           /\ currentExerciseOrder' = << >> => elapsedMs' = 0
           /\ ~ENABLED Seek
           /\ (handleStartStop /\ ~isRunning) => isRunning'
           /\ Tick => ~isRunning']_vars

\* The session without identifiers was started after the clock had moved on,
\* and its first tick has completed it at 0.
C23_Witness ==
    /\ selectedSessionId = "4"
    /\ currentExerciseOrder = << >>
    /\ lastOp = "complete"
    /\ elapsedMs = 0
    /\ ~isRunning
    /\ startTimeRef > 0
    /\ now > startTimeRef


-----------------------------------------------------------------------------
(* Pointer and touch reordering of the form's list compared *)

\* A pointer drop on the list entry at JS index j: an entry that is found
\* handles it with handleDrop(e, j); the placeholder of an entry that is not
\* found has no drop handler, so the event reaches the list's handleDropOnList
DropOnEntry(j) ==
    IF FormItemRendered(j) THEN SessionForm_handleDrop(j) ELSE handleDropOnList

\* C24: a pointer drag started on entry i and dropped on entry j, and a touch
\* drag armed on entry i that ends with the drop indicator j, both leave
\* moveItem(list, i, j) as the list; the touch end clears the dragged index,
\* the touch index, the indicator and the dragging flag, and the pointer
\* drag's dragend clears the dragged index and leaves the touch state alone.
C24_GestureSourcesAgree ==
    [][/\ \A j \in 0..(Len(formExercises) - 1) :
              (/\ formGesture = "dragItem"
               /\ draggedCard = NoCard
               /\ formDraggedIndex # NoIndex
               /\ DropOnEntry(j)) =>
                  formExercises' = moveItem(formExercises, formDraggedIndex, j)
       /\ (/\ handleItemTouchEnd
           /\ isDraggingTouch
           /\ touchDraggedCardIndex # NoIndex
           /\ touchDropIndicator # NoIndex) =>
              /\ formExercises' = moveItem(formExercises, touchDraggedCardIndex,
                                           touchDropIndicator)
              /\ formDraggedIndex' = NoIndex
              /\ touchDraggedCardIndex' = NoIndex
              /\ touchDropIndicator' = NoIndex
              /\ ~isDraggingTouch'
       /\ SessionForm_handleDragEnd =>
              /\ formDraggedIndex' = NoIndex
              /\ UNCHANGED <<isDraggingTouch, touchDraggedCardIndex,
                             touchDropIndicator>>]_vars


-----------------------------------------------------------------------------
(* Quick tap on a palette card *)

\* C25: a touch on a palette card that is released before the long-press
\* threshold without having become a drag appends the card's id to the end of
\* the list, and the tap adds nothing else: the click that follows the
\* release leaves the list as the release left it.
C25_QuickTapAppendsOnce ==
    [][/\ (/\ formGesture = "touchCard"
           /\ ~isDraggingTouch
           /\ handleCardTouchEnd(TRUE)) =>
              formExercises' = Append(formExercises, touchCard)
       /\ (formLast = "cardTapped" /\ cardClickAfterTouch) =>
              formExercises' = formExercises]_vars



-----------------------------------------------------------------------------
(* The repositories of sessions, exercises, stories and practicals: each   *)
(* keeps one collection under one localStorage key, written as JSON        *)

\* JavaScript values. A number is held in quarters of a minute (q = 2 is 0.5)
Undefined == [t |-> "undefined"]
JsNull == [t |-> "null"]
JsNaN == [t |-> "NaN"]
Num(q) == [t |-> "number", q |-> q]
Str(s) == [t |-> "string", s |-> s]
Arr(a) == [t |-> "array", a |-> a]
Bool(b) == [t |-> "boolean", b |-> b]

\* typeof v
typeof(v) ==
    IF v.t \in {"number", "NaN"} THEN "number"
    ELSE IF v.t \in {"null", "array"} THEN "object"
    ELSE v.t

\* !v
Falsy(v) ==
    \/ v.t \in {"undefined", "null", "NaN"}
    \/ v.t = "number" /\ v.q = 0
    \/ v.t = "string" /\ v.s = << >>
    \/ v.t = "boolean" /\ ~v.b

\* v <= q and v < q for a v whose typeof is 'number': false for NaN
JsLessEq(v, q) == v.t = "number" /\ v.q <= q
JsLess(v, q) == v.t = "number" /\ v.q < q

RECURSIVE trimStart(_)
trimStart(s) ==
    IF s # << >> /\ Head(s) = " " THEN trimStart(Tail(s)) ELSE s

RECURSIVE trimEnd(_)
trimEnd(s) ==
    IF s # << >> /\ s[Len(s)] = " "
    THEN trimEnd(SubSeq(s, 1, Len(s) - 1))
    ELSE s

\* s.trim()
trim(s) == trimEnd(trimStart(s))

\* JSON.parse(JSON.stringify(v)) of a field's value: NaN is written as null
JsonValue(v) == IF v.t = "NaN" THEN JsNull ELSE v

\* saveSessions / saveExercises / saveStories / savePracticals followed by
\* the get of the next call: what localStorage holds for the collection
savedCollection(items) ==
    [k \in 1..Len(items) |->
        [f \in DOMAIN items[k] |-> JsonValue(items[k][f])]]

\* MIN_TIME_MINUTES = 0.5, in quarters of a minute
MIN_TIME_MINUTES == 2

\* !x || typeof x !== 'string' || x.trim() === ''
NotANonEmptyString(x) ==
    \/ Falsy(x)
    \/ typeof(x) # "string"
    \/ trim(x.s) = << >>

\* The checks on tags: an array, of strings, none of them blank
tagsErrors(tags) ==
    IF tags.t # "array"
    THEN <<"tags is required and must be an array">>
    ELSE IF \E k \in 1..Len(tags.a) : typeof(tags.a[k]) # "string"
    THEN <<"all tags must be strings">>
    ELSE IF \E k \in 1..Len(tags.a) : trim(tags.a[k].s) = << >>
    THEN <<"tags must not contain empty strings">>
    ELSE << >>

\* The fields description, category and level of a session, description and
\* category of an exercise, text and mood of a story and instruction of a
\* practical are valid in every input drawn here, so their checks add no
\* message.
validateSession(session) ==
    (IF NotANonEmptyString(session.title)
     THEN <<"title is required and must be a non-empty string">>
     ELSE << >>)
    \o (IF session.exercises.t # "array"
        THEN <<"exercises is required and must be an array">>
        ELSE IF \E k \in 1..Len(session.exercises.a) :
                    typeof(session.exercises.a[k]) # "string"
        THEN <<"all exercise IDs must be strings">>
        ELSE << >>)
    \o (IF \/ typeof(session.duration_minutes) # "number"
           \/ JsLessEq(session.duration_minutes, 0)
        THEN <<"duration_minutes is required and must be a positive number">>
        ELSE << >>)

validateExercise(exercise) ==
    (IF NotANonEmptyString(exercise.title)
     THEN <<"title is required and must be a non-empty string">>
     ELSE << >>)
    \o tagsErrors(exercise.tags)
    \o (IF \/ typeof(exercise.duration_minutes) # "number"
           \/ JsLessEq(exercise.duration_minutes, 0)
        THEN <<"duration_minutes is required and must be a positive number">>
        ELSE << >>)

validateStory(story) ==
    (IF NotANonEmptyString(story.title)
     THEN <<"title is required and must be a non-empty string">>
     ELSE << >>)
    \o tagsErrors(story.tags)
    \o (IF \/ typeof(story.time) # "number"
           \/ JsLess(story.time, 2)
        THEN <<"time is required and must be at least 0.5 minutes">>
        ELSE << >>)

validatePractical(practical) ==
    (IF NotANonEmptyString(practical.title)
     THEN <<"title is required and must be a non-empty string">>
     ELSE << >>)
    \o tagsErrors(practical.tags)
    \o (IF \/ typeof(practical.time) # "number"
           \/ JsLess(practical.time, MIN_TIME_MINUTES)
        THEN <<"time is required and must be at least 0.5 minutes">>
        ELSE << >>)

\* The validation the repository of a kind runs first in create and update
validate(kind, data) ==
    IF kind = "session" THEN validateSession(data)
    ELSE IF kind = "exercise" THEN validateExercise(data)
    ELSE IF kind = "story" THEN validateStory(data)
    ELSE validatePractical(data)

\* 'story-' and 'practical-' lead the identifiers of their kinds,
\* 'exercise-set-', 'story-set-' and 'practical-set-' those of the sets
IdPrefix(kind) ==
    IF kind = "story" THEN <<"s", "t", "o", "r", "y", "-">>
    ELSE IF kind = "practical"
    THEN <<"p", "r", "a", "c", "t", "i", "c", "a", "l", "-">>
    ELSE IF kind = "exerciseSet"
    THEN <<"e", "x", "e", "r", "c", "i", "s", "e", "-", "s", "e", "t", "-">>
    ELSE IF kind = "storySet"
    THEN <<"s", "t", "o", "r", "y", "-", "s", "e", "t", "-">>
    ELSE IF kind = "practicalSet"
    THEN <<"p", "r", "a", "c", "t", "i", "c", "a", "l", "-",
           "s", "e", "t", "-">>
    ELSE << >>

\* parseInt(id, 10) of a session or an exercise, the digits captured by
\* /^story-(\d+)$/ or /^practical-(\d+)$/ otherwise; -1 stands for NaN
NumericId(kind, id) ==
    LET p == IdPrefix(kind)
        digits == {DigitChars[d] : d \in 1..10}
    IN  IF /\ Len(id) > Len(p)
           /\ SubSeq(id, 1, Len(p)) = p
           /\ \A k \in (Len(p) + 1)..Len(id) : id[k] \in digits
        THEN NumberOf(SubSeq(id, Len(p) + 1, Len(id)))
        ELSE -1

\* Math.max(...numericIds)
SetMax(S) == CHOOSE m \in S : \A n \in S : n <= m

\* generateId keeping the highest identifier instead of passing it
generateIdNoIncrement(kind, items) ==
    LET numericIds == {NumericId(kind, items[k].id.s) : k \in 1..Len(items)}
                          \ {-1}
    IN  IF Len(items) = 0 \/ numericIds = {}
        THEN IdPrefix(kind) \o <<"1">>
        ELSE IdPrefix(kind) \o NumberToString(SetMax(numericIds))

generateId(kind, items) ==
    LET numericIds == {NumericId(kind, items[k].id.s) : k \in 1..Len(items)}
                          \ {-1}
    IN  IF Len(items) = 0 \/ numericIds = {}
        THEN IdPrefix(kind) \o <<"1">>
        ELSE IdPrefix(kind) \o NumberToString(SetMax(numericIds) + 1)

\* tags.filter(tag => typeof tag === 'string').map(tag => tag.trim())
cleanTags(tags) ==
    Arr([k \in 1..Len(tags.a) |-> Str(trim(tags.a[k].s))])

\* The object create and update build from valid data under an identifier
builtItem(kind, id, data) ==
    IF kind = "session"
    THEN [id |-> Str(id), title |-> Str(trim(data.title.s)),
          duration_minutes |-> data.duration_minutes,
          exercises |-> data.exercises]
    ELSE IF kind = "exercise"
    THEN [id |-> Str(id), title |-> Str(trim(data.title.s)),
          tags |-> cleanTags(data.tags),
          duration_minutes |-> data.duration_minutes]
    ELSE [id |-> Str(id), title |-> Str(trim(data.title.s)),
          tags |-> cleanTags(data.tags), time |-> data.time,
          type |-> Str(IF kind = "story"
                       THEN <<"s", "t", "o", "r", "y">>
                       ELSE <<"p", "r", "a", "c", "t", "i", "c", "a", "l">>)]

\* items.findIndex(x => x.id === id), counted from 1; 0 for -1
findIndex(items, id) ==
    IF \E k \in 1..Len(items) : items[k].id = Str(id)
    THEN CHOOSE k \in 1..Len(items) :
             /\ items[k].id = Str(id)
             /\ \A j \in 1..(k - 1) : items[j].id # Str(id)
    ELSE 0

\* 'Session not found', 'Exercise not found', 'Story not found',
\* 'Practical not found'
NotFoundMessage(kind) ==
    IF kind = "session" THEN "Session not found"
    ELSE IF kind = "exercise" THEN "Exercise not found"
    ELSE IF kind = "story" THEN "Story not found"
    ELSE "Practical not found"

\* createItem that empties the collection when the data is invalid
createItemClearing(kind, items, data) ==
    LET validationErrors == validate(kind, data)
    IN  IF validationErrors # << >>
        THEN [store |-> << >>,
              ret |-> [success |-> FALSE, errors |-> validationErrors]]
        ELSE LET newItem == builtItem(kind, generateId(kind, items), data)
             IN  [store |-> savedCollection(Append(items, newItem)),
                  ret |-> [success |-> TRUE, item |-> newItem]]

\* createSession / createExercise / createStory / createPractical on the
\* collection items: what is stored after it and what it returns
createItem(kind, items, data) ==
    LET validationErrors == validate(kind, data)
    IN  IF validationErrors # << >>
        THEN [store |-> items,
              ret |-> [success |-> FALSE, errors |-> validationErrors]]
        ELSE LET newItem == builtItem(kind, generateId(kind, items), data)
             IN  [store |-> savedCollection(Append(items, newItem)),
                  ret |-> [success |-> TRUE, item |-> newItem]]

\* updateSession / updateExercise / updateStory / updatePractical
updateItem(kind, items, id, data) ==
    LET validationErrors == validate(kind, data)
        index == findIndex(items, id)
    IN  IF validationErrors # << >>
        THEN [store |-> items,
              ret |-> [success |-> FALSE, errors |-> validationErrors]]
        ELSE IF index = 0
        THEN [store |-> items,
              ret |-> [success |-> FALSE,
                       errors |-> <<NotFoundMessage(kind)>>]]
        ELSE LET updatedItem == builtItem(kind, id, data)
             IN  [store |-> savedCollection([items EXCEPT ![index] = updatedItem]),
                  ret |-> [success |-> TRUE, item |-> updatedItem]]

\* deleteSession / deleteExercise / deleteStory / deletePractical
deleteItem(items, id) ==
    LET index == findIndex(items, id)
    IN  IF index = 0
        THEN [store |-> items, ret |-> Bool(FALSE)]
        ELSE [store |-> savedCollection(SubSeq(items, 1, index - 1)
                                  \o SubSeq(items, index + 1, Len(items))),
              ret |-> Bool(TRUE)]

\* reorderSessionExercises(id, newExerciseOrder) on the stored sessions
reorderStored(items, id, newExerciseOrder) ==
    LET index == findIndex(items, id)
    IN  IF newExerciseOrder.t # "array"
        THEN [store |-> items,
              ret |-> [success |-> FALSE,
                       errors |-> <<"newExerciseOrder must be an array">>]]
        ELSE IF \E k \in 1..Len(newExerciseOrder.a) :
                    typeof(newExerciseOrder.a[k]) # "string"
        THEN [store |-> items,
              ret |-> [success |-> FALSE,
                       errors |-> <<"all exercise IDs must be strings">>]]
        ELSE IF index = 0
        THEN [store |-> items,
              ret |-> [success |-> FALSE,
                       errors |-> <<"Session not found">>]]
        ELSE LET session == [items[index] EXCEPT
                                 !.exercises = newExerciseOrder]
             IN  [store |-> savedCollection([items EXCEPT ![index] = session]),
                  ret |-> [success |-> TRUE, item |-> session]]


\* The highest number an identifier of a collection reaches
MaxRepoId == 2

\* The data of the calls: a title with a space to trim, no tags or exercise
\* identifiers and one minute, then each field in turn replaced by another
\* value, and the data with every field invalid
RepoTitles == {Str(<<" ", "P">>), Str(<<" ">>)}
RepoLists == {Arr(<< >>), Arr(<<Str(<<"1">>)>>), Arr(<<Num(4)>>), Undefined}
RepoAmounts == {Num(4), Num(2), Num(1), Num(0), Num(-4), JsNaN, Undefined}

RepoFields ==
    LET base == <<Str(<<" ", "P">>), Arr(<< >>), Num(4)>>
    IN  {f \in RepoTitles \X RepoLists \X RepoAmounts :
            Cardinality({i \in 1..3 : f[i] # base[i]}) <= 1}
        \cup {<<Str(<<" ">>), Undefined, Num(0)>>}

RepoData(kind) ==
    {IF kind = "session"
     THEN [title |-> f[1], exercises |-> f[2], duration_minutes |-> f[3]]
     ELSE IF kind = "exercise"
     THEN [title |-> f[1], tags |-> f[2], duration_minutes |-> f[3]]
     ELSE [title |-> f[1], tags |-> f[2], time |-> f[3]] : f \in RepoFields}

\* The identifiers a call names: those a collection can hold
RepoIds(kind) == {IdPrefix(kind) \o NumberToString(n) : n \in 1..MaxRepoId}

InitRepo ==
    /\ HomeInit
    /\ SessionsInit
    /\ pureCall = NoCall
    /\ pureResult = NoResult
    /\ TabsIdle
    /\ repoKind \in {"session", "exercise", "story", "practical"}
    /\ repoStore = << >>
    /\ repoCall = [fn |-> "none"]
    /\ repoReturn = Undefined

\* The call leaves the collection as out.store and returns out.ret
RepoCalled(call, out) ==
    /\ repoCall' = call
    /\ repoStore' = out.store
    /\ repoReturn' = out.ret
    /\ UNCHANGED <<homeVars, pureVars, sessionsVars, repoKind, tabVars>>

RepoCreate(data) ==
    /\ repoKind # "none"
    /\ \/ validate(repoKind, data) # << >>
       \/ NumericId(repoKind, generateId(repoKind, repoStore)) <= MaxRepoId
    /\ RepoCalled([fn |-> "create", data |-> data],
                  createItem(repoKind, repoStore, data))

RepoUpdate(id, data) ==
    /\ repoKind # "none"
    /\ RepoCalled([fn |-> "update", id |-> id, data |-> data],
                  updateItem(repoKind, repoStore, id, data))

RepoDelete(id) ==
    /\ repoKind # "none"
    /\ RepoCalled([fn |-> "delete", id |-> id], deleteItem(repoStore, id))

RepoReorder(id, newExerciseOrder) ==
    /\ repoKind = "session"
    /\ RepoCalled([fn |-> "reorder", id |-> id,
                   newExerciseOrder |-> newExerciseOrder],
                  reorderStored(repoStore, id, newExerciseOrder))


\* The card page's submit of its modal: editId is null for a new card. An
\* exercise under edit is deleted and created again, a story or a
\* practical is updated.
CardsPage_handleSubmit(data, editId) ==
    LET out == IF repoKind = "exercise"
               THEN IF ~Falsy(editId)
                    THEN createItem(repoKind,
                                    deleteItem(repoStore, editId.s).store,
                                    data)
                    ELSE createItem(repoKind, repoStore, data)
               ELSE IF ~Falsy(editId)
                    THEN updateItem(repoKind, repoStore, editId.s, data)
                    ELSE createItem(repoKind, repoStore, data)
        created == repoKind = "exercise" \/ Falsy(editId)
    IN  /\ repoKind \in {"exercise", "story", "practical"}
        /\ (created /\ out.ret.success) =>
               NumericId(repoKind, out.ret.item.id.s) <= MaxRepoId
        /\ RepoCalled([fn |-> "handleSubmit", editId |-> editId,
                       data |-> data], out)

NextRepo ==
    \/ \E data \in RepoData(repoKind) : RepoCreate(data)
    \/ \E id \in RepoIds(repoKind), data \in RepoData(repoKind) :
           RepoUpdate(id, data)
    \/ \E id \in RepoIds(repoKind) : RepoDelete(id)
    \/ \E id \in RepoIds(repoKind), newExerciseOrder \in RepoLists :
           RepoReorder(id, newExerciseOrder)
    \/ \E data \in RepoData(repoKind),
          editId \in {Str(id) : id \in RepoIds(repoKind)} \cup {JsNull} :
           CardsPage_handleSubmit(data, editId)

SpecRepo == InitRepo /\ [][NextRepo]_vars



\* The value a call returned reports a failure
Failure(ret) ==
    \/ ret = Bool(FALSE)
    \/ "success" \in DOMAIN ret /\ ~ret.success

\* The step is a call of a repository operation with invalid data
InvalidDataCall ==
    /\ repoCall'.fn \in {"create", "update"}
    /\ validate(repoKind, repoCall'.data) # << >>

\* The step is a call of fn that names an identifier the collection lacks
MissingIdCall(fn) ==
    /\ repoCall'.fn = fn
    /\ findIndex(repoStore, repoCall'.id) = 0

\* The step is a reorder whose new order is no array of strings
BadOrderCall ==
    /\ repoCall'.fn = "reorder"
    /\ \/ repoCall'.newExerciseOrder.t # "array"
       \/ \E k \in 1..Len(repoCall'.newExerciseOrder.a) :
              typeof(repoCall'.newExerciseOrder.a[k]) # "string"

\* C26 as stated: a create or update with invalid data returns
\* {success: false} with a non-empty list of errors, every update and
\* every reorder that names a missing identifier returns {success: false,
\* errors: ['... not found']}, a reorder with a non-array or with an
\* identifier that is no string returns {success: false}, a delete of a
\* missing identifier returns false, and each of them leaves the stored
\* collection as it was.
C26_FailuresAsStated ==
    [][/\ InvalidDataCall =>
              /\ Failure(repoReturn')
              /\ repoReturn'.errors # << >>
              /\ repoStore' = repoStore
       /\ (MissingIdCall("update") \/ MissingIdCall("reorder")) =>
              /\ repoReturn' = [success |-> FALSE,
                                errors |-> <<NotFoundMessage(repoKind)>>]
              /\ repoStore' = repoStore
       /\ BadOrderCall =>
              /\ Failure(repoReturn')
              /\ repoStore' = repoStore
       /\ MissingIdCall("delete") =>
              /\ repoReturn' = Bool(FALSE)
              /\ repoStore' = repoStore]_vars

\* C26: every call of create, update, delete and reorder that returns a
\* failure leaves the stored collection as it was. A create or update with
\* invalid data returns {success: false} with the non-empty list of the
\* validation's messages, whether or not the identifier exists; an update
\* with valid data and a reorder with an array of strings that name a missing
\* identifier return {success: false, errors: ['... not found']}; a reorder
\* with a non-array or with an identifier that is no string returns
\* {success: false} with that message, whether or not the session exists; a
\* delete of a missing identifier returns false.
C26_FailuresReturnedStorageKept ==
    [][/\ (/\ repoCall'.fn \in {"create", "update", "delete", "reorder"}
           /\ Failure(repoReturn')) => repoStore' = repoStore
       /\ InvalidDataCall =>
              /\ repoReturn' =
                     [success |-> FALSE,
                      errors |-> validate(repoKind, repoCall'.data)]
              /\ repoReturn'.errors # << >>
              /\ repoStore' = repoStore
       /\ (/\ MissingIdCall("update")
           /\ ~InvalidDataCall) =>
              /\ repoReturn' = [success |-> FALSE,
                                errors |-> <<NotFoundMessage(repoKind)>>]
              /\ repoStore' = repoStore
       /\ (/\ MissingIdCall("reorder")
           /\ ~BadOrderCall) =>
              /\ repoReturn' = [success |-> FALSE,
                                errors |-> <<"Session not found">>]
              /\ repoStore' = repoStore
       /\ BadOrderCall =>
              /\ Failure(repoReturn')
              /\ Len(repoReturn'.errors) = 1
              /\ repoReturn'.errors # <<"Session not found">>
              /\ repoStore' = repoStore
       /\ MissingIdCall("delete") =>
              /\ repoReturn' = Bool(FALSE)
              /\ repoStore' = repoStore]_vars

\* An update with valid data named a story the collection lacks, while the
\* collection held another story: it returned 'Story not found'.
C26_Witness ==
    /\ repoKind = "story"
    /\ repoCall.fn = "update"
    /\ validate(repoKind, repoCall.data) = << >>
    /\ repoReturn = [success |-> FALSE, errors |-> <<"Story not found">>]
    /\ Len(repoStore) = 1
    /\ findIndex(repoStore, repoCall.id) = 0


\* C27: from empty storage, after every sequence of calls on the
\* repositories of exercises, stories and practicals, every stored exercise
\* has a numeric duration_minutes > 0 and every stored story and practical
\* a numeric time >= 0.5.
C27_StoredDurationsValid ==
    /\ repoKind = "exercise" =>
           \A k \in 1..Len(repoStore) :
               /\ repoStore[k].duration_minutes.t = "number"
               /\ repoStore[k].duration_minutes.q > 0
    /\ repoKind \in {"story", "practical"} =>
           \A k \in 1..Len(repoStore) :
               /\ repoStore[k].time.t = "number"
               /\ repoStore[k].time.q >= 2


\* The step is the card page's submit of an edit of a stored exercise that
\* succeeded
ExerciseEdited ==
    /\ repoKind = "exercise"
    /\ repoCall'.fn = "handleSubmit"
    /\ ~Falsy(repoCall'.editId)
    /\ findIndex(repoStore, repoCall'.editId.s) # 0
    /\ repoReturn'.success

\* C28 as stated: the edit of an exercise through the card page gives it an
\* identifier different from the one it had, whichever exercise of the
\* collection is edited.
C28_EditAssignsNewId ==
    [][ExerciseEdited => repoReturn'.item.id # repoCall'.editId]_vars

\* C28: the edit of an exercise through the card page removes it and
\* appends the edited exercise under the identifier that follows the highest
\* number among the other exercises ('1' when there is no other), the other
\* exercises staying as they were; that identifier differs from the one the
\* exercise had unless the exercise had exactly that number, as the only
\* exercise '1' and the exercise with the highest number after a gapless
\* run have.
C28_EditAssignsNextId ==
    [][ExerciseEdited =>
          LET old == repoCall'.editId.s
              index == findIndex(repoStore, old)
              others == SubSeq(repoStore, 1, index - 1)
                            \o SubSeq(repoStore, index + 1, Len(repoStore))
              numbers == {NumericId("exercise", others[k].id.s) :
                              k \in 1..Len(others)}
              next == IF numbers = {} THEN 1 ELSE SetMax(numbers) + 1
          IN  /\ repoReturn'.item.id = Str(NumberToString(next))
              /\ repoStore' = Append(others, savedCollection(<<repoReturn'.item>>)[1])
              /\ (repoReturn'.item.id = repoCall'.editId)
                     <=> NumericId("exercise", old) = next]_vars

\* Of two stored exercises the one with the highest number was edited through
\* the card page and has the identifier it had before.
C28_Witness ==
    /\ repoKind = "exercise"
    /\ repoCall.fn = "handleSubmit"
    /\ repoReturn.success
    /\ Len(repoStore) = 2
    /\ repoCall.editId = Str(<<"2">>)
    /\ repoReturn.item.id = Str(<<"2">>)
    /\ repoStore[1].id = Str(<<"1">>)
    /\ repoStore[2].id = Str(<<"2">>)


-----------------------------------------------------------------------------
(* Two playback views (tabs) of one browser profile: each holds its own    *)
(* Home state, both read and write the sessions of the same localStorage   *)

TabNames == {"A", "B"}

\* The stored sessions the two views were opened on
TabSessions ==
    [sid \in {"1", "2"} |->
        IF sid = "1" THEN <<"1", "story-1", "2">>
        ELSE <<"story-2", OrphanId, "2">>]

\* Both views have run their mount effect on the same stored sessions
InitTabs ==
    /\ storage = TabSessions
    /\ allSessions = TabSessions
    /\ selectedSessionId = "default"
    /\ currentExerciseOrder = DefaultOrder
    /\ draggedIndex = NoIndex
    /\ dragPhase = "idle"
    /\ isRunning = FALSE
    /\ elapsedMs = 0
    /\ animationRef = "null"
    /\ startTimeRef = 0
    /\ elapsedMsRef = 0
    /\ rafPending = 0
    /\ now = 0
    /\ lastOp = "mount"
    /\ SessionsInit
    /\ pureCall = NoCall
    /\ pureResult = NoResult
    /\ RepoIdle
    /\ tabs = [t \in TabNames |->
                  [allSessions |-> TabSessions,
                   selectedSessionId |-> "default",
                   currentExerciseOrder |-> DefaultOrder,
                   draggedIndex |-> NoIndex,
                   dragPhase |-> "idle"]]
    /\ lastWrite = [sid \in DOMAIN TabSessions |->
                       [tab |-> "none", writers |-> {}]]

\* handleSessionChange in the view t, with the effect that loads the order
TabSessionChange(t, id) ==
    /\ tabs # << >>
    /\ tabs[t].dragPhase = "idle"
    /\ id # tabs[t].selectedSessionId
    /\ tabs' = [tabs EXCEPT
                   ![t].selectedSessionId = id,
                   ![t].currentExerciseOrder =
                       currentSessionExercises(tabs[t].allSessions, id)]
    /\ UNCHANGED <<homeVars, pureVars, sessionsVars, repoVars, lastWrite>>

\* handleDragStart(e, index) on a card of the view t; the one pointer drags
\* in one view at a time
TabDragStart(t, index) ==
    /\ tabs # << >>
    /\ \A u \in TabNames : tabs[u].dragPhase = "idle"
    /\ index \in 0..(Len(itemsWithTimesOf(tabs[t].currentExerciseOrder)) - 1)
    /\ tabs' = [tabs EXCEPT ![t].draggedIndex = index,
                            ![t].dragPhase = "dragging"]
    /\ UNCHANGED <<homeVars, pureVars, sessionsVars, repoVars, lastWrite>>

\* handleDrop(e, dropIndex) on a card of the view t
TabDrop(t, dropIndex) ==
    LET tab == tabs[t]
        newOrder == moveItem(tab.currentExerciseOrder, tab.draggedIndex,
                             dropIndex)
        written == IF tab.selectedSessionId # "default"
                   THEN reorderSessionExercises(storage,
                            tab.selectedSessionId, newOrder)
                   ELSE [sessions |-> storage, success |-> FALSE]
    IN  /\ tabs # << >>
        /\ tab.dragPhase = "dragging"
        /\ dropIndex \in 0..(Len(itemsWithTimesOf(tab.currentExerciseOrder)) - 1)
        /\ IF tab.draggedIndex = NoIndex \/ tab.draggedIndex = dropIndex
           THEN /\ tabs' = [tabs EXCEPT ![t].dragPhase = "dropped"]
                /\ UNCHANGED <<storage, lastWrite>>
           ELSE /\ tabs' = [tabs EXCEPT ![t].currentExerciseOrder = newOrder,
                                        ![t].draggedIndex = NoIndex,
                                        ![t].dragPhase = "dropped"]
                /\ storage' = written.sessions
                /\ lastWrite' =
                       IF written.success
                       THEN [lastWrite EXCEPT ![tab.selectedSessionId] =
                                [tab |-> t, order |-> newOrder,
                                 writers |-> @.writers \cup {t}]]
                       ELSE lastWrite
        /\ UNCHANGED <<allSessions, selectedSessionId, currentExerciseOrder,
                       draggedIndex, dragPhase, transportVars, now, lastOp,
                       pureVars, sessionsVars, repoVars>>

\* handleDragEnd in the view t
TabDragEnd(t) ==
    /\ tabs # << >>
    /\ tabs[t].dragPhase # "idle"
    /\ tabs' = [tabs EXCEPT ![t].draggedIndex = NoIndex,
                            ![t].dragPhase = "idle"]
    /\ UNCHANGED <<homeVars, pureVars, sessionsVars, repoVars, lastWrite>>

NextTabs ==
    \/ \E t \in TabNames, id \in DOMAIN TabSessions \cup {"default"} :
           TabSessionChange(t, id)
    \/ \E t \in TabNames, index \in 0..(MaxOrderLen - 1) :
           TabDragStart(t, index)
    \/ \E t \in TabNames, dropIndex \in 0..(MaxOrderLen - 1) :
           TabDrop(t, dropIndex)
    \/ \E t \in TabNames : TabDragEnd(t)

SpecTabs == InitTabs /\ [][NextTabs]_vars

\* The persisted order of each reordered session is the one written last,
\* and every persisted order has the identifiers the session had
PersistedIsLastWritten ==
    \A sid \in DOMAIN storage :
        /\ lastWrite[sid].tab # "none" => storage[sid] = lastWrite[sid].order
        /\ Len(storage[sid]) = Len(TabSessions[sid])
        /\ \A x \in {"1", "2", "story-1", "story-2", OrphanId} :
               Occurrences(storage[sid], x) = Occurrences(TabSessions[sid], x)

\* C29: with two views open on the same stored sessions, the persisted order
\* of a session that has been reordered is the order the view wrote that
\* reordered it last, and the persisted order of every session is a
\* permutation of the identifiers the session had. A view's reorder writes
\* the order that view shows after its own move, whatever the other view
\* has persisted for the session in between, and leaves the other sessions
\* as they are stored.
C29_LastWriteWins ==
    /\ []PersistedIsLastWritten
    /\ [][storage' # storage =>
              \E t \in TabNames :
                  LET sid == tabs[t].selectedSessionId
                  IN  /\ sid \in DOMAIN storage
                      /\ tabs[t].dragPhase = "dragging"
                      /\ \E dropIndex \in 0..(MaxOrderLen - 1) :
                             tabs'[t].currentExerciseOrder =
                                 moveItem(tabs[t].currentExerciseOrder,
                                          tabs[t].draggedIndex, dropIndex)
                      /\ storage' = [storage EXCEPT
                                         ![sid] = tabs'[t].currentExerciseOrder]
                      /\ lastWrite'[sid].tab = t]_vars

\* Both views reordered session "1": A moved "1" to the end, then B, still
\* showing the order it had read, exchanged "story-1" and "2". The persisted
\* order is B's; A's move is not in it.
C29_Witness ==
    /\ lastWrite["1"].writers = TabNames
    /\ lastWrite["1"].tab = "B"
    /\ tabs["A"].currentExerciseOrder = <<"story-1", "2", "1">>
    /\ tabs["A"].selectedSessionId = "1"
    /\ tabs["B"].currentExerciseOrder = <<"1", "2", "story-1">>
    /\ storage["1"] = <<"1", "2", "story-1">>


-----------------------------------------------------------------------------
(* The card a drop moves in the playback view *)

\* C30: in the playback view a drop of the dragged card, displayed at
\* position draggedIndex, onto the card displayed at another position
\* dropIndex shows the item of the dragged card at position dropIndex
\* afterwards, also when the order holds identifiers that resolve to no item.
C30_DropMovesDisplayedItem ==
    [][\A dropIndex \in 0..(MaxOrderLen - 1) :
          (/\ draggedIndex # NoIndex
           /\ draggedIndex # dropIndex
           /\ handleDrop(dropIndex)) =>
              /\ Len(itemsWithTimes') = Len(itemsWithTimes)
              /\ itemsWithTimes'[dropIndex + 1].id =
                     itemsWithTimes[draggedIndex + 1].id]_vars


-----------------------------------------------------------------------------
(* The order the playback view shows against the persisted order *)

\* C31: whenever a stored session is selected in the playback view, the
\* order the view holds is the order persisted for that session, after any
\* sequence of reorders and session changes.
C31_ShownOrderIsPersisted ==
    (page = "home" /\ selectedSessionId # "default") =>
        currentExerciseOrder = storage[selectedSessionId]


-----------------------------------------------------------------------------
(* Progress of previous and next *)

\* C32: whenever the active index is above 0, handlePrevious leaves an
\* active index strictly below it, and whenever the active index is below
\* the last one, handleNext leaves an active index strictly above it, on
\* every timeline, those with segments of no duration included.
C32_NavigationProgress ==
    [][/\ (currentItemIndex > 0 /\ handlePrevious) =>
              currentItemIndex' < currentItemIndex
       /\ (currentItemIndex < Len(itemsWithTimes) - 1 /\ handleNext) =>
              currentItemIndex' > currentItemIndex]_vars


-----------------------------------------------------------------------------
(* The chain of frame callbacks *)

\* C33: at most one frame callback is scheduled in every reachable state,
\* exactly one while the transport runs, and none once a pause, a reset, a
\* completion or a session change has stopped it; a start after a stop or a
\* completion leaves one scheduled callback, not two.
C33_SingleTickChain ==
    /\ rafPending <= 1
    /\ isRunning => (rafPending = 1 /\ animationRef = "pending")
    /\ ~isRunning => rafPending = 0
    /\ lastOp \in {"pause", "reset", "complete", "sessionChange"} =>
           (~isRunning /\ rafPending = 0)

\* A completed transport was started again and has ticked since: one callback
\* is scheduled.
C33_Witness ==
    /\ lastOp = "tick"
    /\ isRunning
    /\ rafPending = 1
    /\ startTimeRef >= totalDurationMs
    /\ totalDurationMs > 0
    /\ elapsedMs > 0


-----------------------------------------------------------------------------
(* The playback view with the browser's scheduling: a requested frame       *)
(* callback is run, and performance.now() goes on                          *)

SpecFair == Spec /\ WF_vars(Tick) /\ WF_vars(Advance)

\* The transport runs, untouched since its start, and the clock of the model
\* reaches the time at which it completes
StartedWithTimeLeft ==
    /\ isRunning
    /\ lastOp \in {"start", "restart", "tick"}
    /\ startTimeRef + totalDurationMs <= MaxFrames * FrameMs

\* The transport was paused, reset or redirected by a seek or a session change
Interrupted ==
    lastOp \in {"pause", "reset", "previous", "next", "sessionChange"}

\* Completed: the position is the total, the transport does not run and no
\* frame callback is scheduled
Completed ==
    /\ lastOp = "complete"
    /\ elapsedMs = totalDurationMs
    /\ ~isRunning
    /\ rafPending = 0

\* C34: with frame callbacks run and the clock advancing, a transport that
\* was started and is not paused, reset or redirected by a seek or a session
\* change eventually is Completed: elapsedMs = totalDurationMs, not running,
\* and no further tick scheduled.
C34_EventuallyCompleted ==
    StartedWithTimeLeft ~> (Completed \/ Interrupted)

\* A transport of positive duration has run to completion.
C34_Witness ==
    /\ Completed
    /\ totalDurationMs > 0
    /\ now >= startTimeRef + totalDurationMs


-----------------------------------------------------------------------------
(* Identifiers of a stored collection *)

\* C35: from empty storage, after every sequence of calls on a repository
\* the identifiers of the stored collection are pairwise distinct, and a
\* create that succeeds returns an identifier no item stored before it had.
C35_DistinctIds ==
    /\ [](\A j, k \in 1..Len(repoStore) :
              repoStore[j].id = repoStore[k].id => j = k)
    /\ [][(repoCall'.fn = "create" /\ repoReturn'.success) =>
              /\ findIndex(repoStore, repoReturn'.item.id.s) = 0
              /\ repoStore' =
                     Append(repoStore,
                            savedCollection(<<repoReturn'.item>>)[1])]_vars

\* A create added a second practical to a stored one.
C35_Witness ==
    /\ repoKind = "practical"
    /\ repoCall.fn = "create"
    /\ repoReturn.success
    /\ Len(repoStore) = 2
    /\ repoStore[1].id # repoStore[2].id
    /\ repoStore[2].id = repoReturn.item.id


-----------------------------------------------------------------------------
(* An edit on the card page that fails *)

\* C36: when the data of an exercise's edit on the card page fails the
\* validation, the submit returns {success: false, errors} and the exercise
\* under edit is still stored, under its identifier and with its fields.
C36_FailedEditKeepsExercise ==
    [][(/\ repoKind = "exercise"
        /\ repoCall'.fn = "handleSubmit"
        /\ ~Falsy(repoCall'.editId)
        /\ findIndex(repoStore, repoCall'.editId.s) # 0
        /\ validate("exercise", repoCall'.data) # << >>) =>
           LET index == findIndex(repoStore, repoCall'.editId.s)
           IN  /\ repoReturn' =
                      [success |-> FALSE,
                       errors |-> validate("exercise", repoCall'.data)]
               /\ \E k \in 1..Len(repoStore') :
                      repoStore'[k] = repoStore[index]]_vars


-----------------------------------------------------------------------------
(* The repositories of exercise sets, story sets and practical sets. A set *)
(* lists its cards under exerciseIds, storyIds or practicalIds: cardIds    *)
(* here, the name the sets page gives the list. createdAt and updatedAt    *)
(* are left out.                                                           *)

\* validateExerciseSet / validateStorySet / validatePracticalSet
validateSet(set) ==
    (IF \/ Falsy(set.name)
        \/ typeof(set.name) # "string"
        \/ trim(set.name.s) = << >>
     THEN <<"name is required and must be a non-empty string">>
     ELSE << >>)
    \o (IF ~Falsy(set.description) /\ typeof(set.description) # "string"
        THEN <<"description must be a string">>
        ELSE << >>)
    \o (IF set.cardIds.t # "array"
        THEN <<"cardIds is required and must be an array">>
        ELSE IF \E k \in 1..Len(set.cardIds.a) :
                    typeof(set.cardIds.a[k]) # "string"
        THEN <<"all cardIds must be strings">>
        ELSE << >>)

\* createExerciseSet / createStorySet / createPracticalSet
createSet(kind, sets, setData) ==
    IF validateSet(setData) # << >>
    THEN [store |-> sets,
          ret |-> [success |-> FALSE, errors |-> validateSet(setData)]]
    ELSE LET newSet ==
                 [id |-> Str(generateId(kind, sets)),
                  name |-> Str(trim(setData.name.s)),
                  description |-> IF ~Falsy(setData.description)
                                  THEN Str(trim(setData.description.s))
                                  ELSE Str(<< >>),
                  cardIds |-> setData.cardIds,
                  isDefault |-> IF ~Falsy(setData.isDefault)
                                THEN setData.isDefault
                                ELSE Bool(FALSE)]
         IN  [store |-> savedCollection(Append(sets, newSet)),
              ret |-> [success |-> TRUE, set |-> newSet]]

\* updateExerciseSet / updateStorySet / updatePracticalSet
updateSet(sets, id, setData) ==
    LET index == findIndex(sets, id)
    IN  IF validateSet(setData) # << >>
        THEN [store |-> sets,
              ret |-> [success |-> FALSE, errors |-> validateSet(setData)]]
        ELSE IF index = 0
        THEN [store |-> sets,
              ret |-> [success |-> FALSE, errors |-> <<"set not found">>]]
        ELSE LET updatedSet ==
                     [sets[index] EXCEPT
                          !.name = Str(trim(setData.name.s)),
                          !.description =
                              IF ~Falsy(setData.description)
                              THEN Str(trim(setData.description.s))
                              ELSE Str(<< >>),
                          !.cardIds = setData.cardIds]
             IN  [store |-> savedCollection([sets EXCEPT ![index] = updatedSet]),
                  ret |-> [success |-> TRUE, set |-> updatedSet]]

\* A delete that removes a default set as it removes any other
deleteSetUnguarded(sets, id) ==
    LET index == findIndex(sets, id)
    IN  IF index = 0
        THEN [store |-> sets, ret |-> Bool(FALSE)]
        ELSE [store |-> savedCollection(SubSeq(sets, 1, index - 1)
                                  \o SubSeq(sets, index + 1, Len(sets))),
              ret |-> Bool(TRUE)]

\* deleteExerciseSet / deleteStorySet / deletePracticalSet
deleteSet(sets, id) ==
    LET index == findIndex(sets, id)
    IN  IF index = 0
        THEN [store |-> sets, ret |-> Bool(FALSE)]
        ELSE IF ~Falsy(sets[index].isDefault)
        THEN [store |-> sets, ret |-> Bool(FALSE)]
        ELSE [store |-> savedCollection(SubSeq(sets, 1, index - 1)
                                  \o SubSeq(sets, index + 1, Len(sets))),
              ret |-> Bool(TRUE)]

\* 'exercise-set-default'
StarterSetId ==
    <<"e", "x", "e", "r", "c", "i", "s", "e", "-", "s", "e", "t", "-",
      "d", "e", "f", "a", "u", "l", "t">>

\* The starter set; its name and description are shortened to a letter
StarterSet ==
    [id |-> Str(StarterSetId), name |-> Str(<<"Y">>),
     description |-> Str(<<"A">>),
     cardIds |-> Arr([k \in 1..7 |-> Str(NumberToString(k))]),
     isDefault |-> Bool(TRUE)]

\* sets.some(s => s.isDefault)
hasDefaultSet(sets) == \E k \in 1..Len(sets) : ~Falsy(sets[k].isDefault)

\* initializeDefaultExerciseSets: it returns nothing
initializeDefaultExerciseSets(sets) ==
    IF ~hasDefaultSet(sets)
    THEN [store |-> savedCollection(Append(sets, StarterSet)), ret |-> Undefined]
    ELSE [store |-> sets, ret |-> Undefined]

\* The data of the calls on sets: a name with a space to trim, no
\* description, no cards and no isDefault, then one field replaced
SetFields ==
    LET base == <<Str(<<" ", "P">>), Undefined, Arr(<< >>), Undefined>>
        values == {Str(<<" ", "P">>), Str(<<" ">>)}
                      \X {Undefined, Str(<<"d", " ">>), Num(4)}
                      \X {Arr(<< >>), Arr(<<Num(4)>>), Undefined}
                      \X {Undefined, Bool(TRUE), Bool(FALSE)}
    IN  {f \in values : Cardinality({i \in 1..4 : f[i] # base[i]}) <= 1}

SetData ==
    {[name |-> f[1], description |-> f[2], cardIds |-> f[3],
      isDefault |-> f[4]] : f \in SetFields}

\* The identifiers a call on sets names
SetIds(kind) ==
    RepoIds(kind) \cup (IF kind = "exerciseSet" THEN {StarterSetId} ELSE {})

InitSets ==
    /\ HomeInit
    /\ SessionsInit
    /\ pureCall = NoCall
    /\ pureResult = NoResult
    /\ TabsIdle
    /\ repoKind \in {"exerciseSet", "storySet", "practicalSet"}
    /\ repoStore = << >>
    /\ repoCall = [fn |-> "none"]
    /\ repoReturn = Undefined

SetCreate(setData) ==
    /\ \/ validateSet(setData) # << >>
       \/ NumericId(repoKind, generateId(repoKind, repoStore)) <= MaxRepoId
    /\ RepoCalled([fn |-> "create", data |-> setData],
                  createSet(repoKind, repoStore, setData))

SetUpdate(id, setData) ==
    RepoCalled([fn |-> "update", id |-> id, data |-> setData],
               updateSet(repoStore, id, setData))

SetDelete(id) ==
    RepoCalled([fn |-> "delete", id |-> id], deleteSet(repoStore, id))

SetInitialize ==
    /\ repoKind = "exerciseSet"
    /\ RepoCalled([fn |-> "initialise"],
                  initializeDefaultExerciseSets(repoStore))

NextSets ==
    \/ \E setData \in SetData : SetCreate(setData)
    \/ \E id \in SetIds(repoKind), setData \in SetData : SetUpdate(id, setData)
    \/ \E id \in SetIds(repoKind) : SetDelete(id)
    \/ SetInitialize

SpecSets == InitSets /\ [][NextSets]_vars

\* The identifiers of the default sets of a collection
DefaultSetIds(sets) ==
    {sets[k].id : k \in {j \in 1..Len(sets) : ~Falsy(sets[j].isDefault)}}

\* initializeDefaultExerciseSets has added the starter set
Initialised == findIndex(repoStore, StarterSetId) # 0

\* delete of a default set returns false and keeps storage, update keeps
\* every isDefault, initialise adds the starter set only without a default
SetsProtected ==
    /\ (/\ repoCall'.fn = "delete"
        /\ findIndex(repoStore, repoCall'.id) # 0
        /\ ~Falsy(repoStore[findIndex(repoStore, repoCall'.id)].isDefault)) =>
           (repoReturn' = Bool(FALSE) /\ repoStore' = repoStore)
    /\ repoCall'.fn = "update" =>
           /\ Len(repoStore') = Len(repoStore)
           /\ \A k \in 1..Len(repoStore) :
                  /\ repoStore'[k].id = repoStore[k].id
                  /\ repoStore'[k].isDefault = repoStore[k].isDefault
    /\ repoCall'.fn = "initialise" =>
           repoStore' = IF hasDefaultSet(repoStore)
                        THEN repoStore
                        ELSE Append(repoStore, StarterSet)
    /\ Cardinality({k \in 1..Len(repoStore') :
                       repoStore'[k].id = Str(StarterSetId)}) <= 1

\* C37 as stated: default sets are protected from delete and update,
\* initialise adds the starter set only when no default set exists, and
\* once initialised no call of create, update, delete or initialise
\* changes which sets are default
C37_DefaultSetsFixed ==
    [][/\ SetsProtected
       /\ Initialised =>
              DefaultSetIds(repoStore') = DefaultSetIds(repoStore)]_vars

\* C37: default sets are protected from delete and update, initialise
\* adds the starter set only when no default set exists, and once
\* initialised the default sets are never removed and grow only by a
\* create whose data carries a truthy isDefault
C37_DefaultSetsKept ==
    [][/\ SetsProtected
       /\ Initialised =>
              /\ DefaultSetIds(repoStore) \subseteq DefaultSetIds(repoStore')
              /\ DefaultSetIds(repoStore') # DefaultSetIds(repoStore) =>
                     /\ repoCall'.fn = "create"
                     /\ ~Falsy(repoCall'.data.isDefault)
                     /\ repoReturn'.success
                     /\ DefaultSetIds(repoStore') =
                            DefaultSetIds(repoStore)
                                \cup {repoReturn'.set.id}]_vars

\* The starter set outlived a delete of its own beside a second default
\* set that a create added after it
C37_Witness ==
    /\ repoKind = "exerciseSet"
    /\ repoCall = [fn |-> "delete", id |-> StarterSetId]
    /\ repoReturn = Bool(FALSE)
    /\ Len(repoStore) = 2
    /\ repoStore[1] = StarterSet
    /\ ~Falsy(repoStore[2].isDefault)

-----------------------------------------------------------------------------
(* Arming of the touch drag mode of the form's list *)

\* C38: the dragging flag becomes true only by a long-press timeout that no
\* touch-move and no touch-end has preceded since its touch began; a
\* touch-move or a touch-end clears the long-press timer; a touch-end
\* without drag mode armed keeps the list and leaves no timeout scheduled
C38_ArmedOnlyByHold ==
    [][/\ (~isDraggingTouch /\ isDraggingTouch') =>
              \/ longPressTimer = "pending" /\ longPressTimer' = "fired"
              \/ \E t \in strayTimers :
                     ~t.seen /\ strayTimers' = strayTimers \ {t}
       /\ (/\ formGesture = "touchItem"
           /\ \/ handleItemTouchEnd
              \/ \E hoveredIndex \in {NoIndex} \cup 0..(Len(formExercises) - 1) :
                     handleItemTouchMove(hoveredIndex)) =>
              longPressTimer' = "null"
       /\ (~isDraggingTouch /\ handleItemTouchEnd) =>
              /\ formExercises' = formExercises
              /\ longPressTimer' # "pending"
              /\ strayTimers' = {}]_vars

====
